---- MODULE Spec2Model ----
(***************************************************************************)
(* A model of pgdumb.py: the streaming rewriter of PostgreSQL custom-format *)
(* dumps.  Bytes are the integers 0..255, byte strings are sequences of     *)
(* bytes.  A stream is a record holding its data and its read position; a   *)
(* read returns the bytes read together with the stream after the read.     *)
(***************************************************************************)
EXTENDS Integers, Sequences, FiniteSets, TLC

VARIABLES
    input,      \* the bytes upstream will deliver, in order
    packet,     \* upstream delivers at most up to the next multiple of packet per read
    pc,         \* position of process_stream: "header", "comments", "blocks", "done", "error"
    up,         \* number of bytes read from upstream so far
    upReads,    \* number of read calls made on upstream
    buffer,     \* the scratch buffer of _parse_header_and_toc
    dio,        \* DumpProcessor.dio: [int_size, offset_size]
    dump,       \* the parsed Dump, or NoDump
    comb,       \* the StreamCombiner: [idx, data, pos]
    pending,    \* the COMMENT defns not yet handed to the transformer
    out,        \* the bytes written downstream
    flushedAt,  \* Len(out) at the last flush of downstream
    calls,      \* the arguments the transformer was invoked with, in order
    err,        \* the error process_stream raised, "" if none
    last,       \* what the last step did: a record, for the properties
    tagsAt,     \* the input positions of the bytes read as block-type tags
    scn,        \* the dump upstream holds, as described (input is its encoding, cut)
    unit,       \* the function applied on its own, "" in a run of process_stream
    arg,        \* the arguments the function is applied to
    res         \* what the function has returned so far

vars == <<input, packet, pc, up, upReads, buffer, dio, dump, comb, pending, out,
          flushedAt, calls, err, last, tagsAt, scn, unit, arg, res>>

\* the variables of a run of process_stream, and those of a function applied on its own
run == <<input, packet, pc, up, upReads, buffer, dio, dump, comb, pending, out,
         flushedAt, calls, err, last, tagsAt, scn>>
call == <<unit, arg, res>>

(***************************************************************************)
(* Program constants                                                       *)
(***************************************************************************)
DATA == 1
BLOBS == 2
END == 4
CUSTOM_FORMAT == 1
ZLIB_CHUNK_SIZE == 4096
DEFAULT_BUFFER_SIZE == 8192
MAGIC_HEADER == <<80, 71, 68, 77, 80>>
V1_12 == <<1, 12, 0>>
V1_14 == <<1, 14, 0>>
V1_15 == <<1, 15, 0>>
V1_16 == <<1, 16, 0>>
DEFAULT_INT_SIZE == 4
DEFAULT_OFFSET_SIZE == 8

\* Python's None, as a value comparable with byte strings
None == <<-1>>
\* the bytes of "TABLE DATA" and of "COMMENT"
TABLE_DATA == <<84, 65, 66, 76, 69, 32, 68, 65, 84, 65>>
COMMENT == <<67, 79, 77, 77, 69, 78, 84>>

Min(a, b) == IF a < b THEN a ELSE b

RECURSIVE Pow256(_)
Pow256(i) == IF i = 0 THEN 1 ELSE 256 * Pow256(i - 1)

\* tuple comparison of versions
VersionLess(a, b) ==
    \/ a[1] < b[1]
    \/ a[1] = b[1] /\ a[2] < b[2]
    \/ a[1] = b[1] /\ a[2] = b[2] /\ a[3] < b[3]

(***************************************************************************)
(* Streams                                                                 *)
(***************************************************************************)
\* io.BytesIO over data, positioned at its start
BytesIO(data) == [kind |-> "bytesio", idx |-> 0, data |-> data, pos |-> 0, up |-> 0]

\* StreamCombiner(io.BytesIO(data), input_stream), upstream having delivered upos bytes
StreamCombiner(data, upos) ==
    [kind |-> "combiner", idx |-> 0, data |-> data, pos |-> 0, up |-> upos]

\* BytesIO.read(size): a negative size reads to the end
BytesIORead(s, size) ==
    LET avail == Len(s.data) - s.pos
        k == IF size < 0 THEN avail ELSE Min(size, avail)
    IN  [d |-> SubSeq(s.data, s.pos + 1, s.pos + k), s |-> [s EXCEPT !.pos = s.pos + k]]

\* How many bytes one read(size) of upstream returns at position upos: never more
\* than asked, never past the end of the packet upos lies in, 0 only at end of input
UpstreamCount(upos, size) ==
    LET avail == Len(input) - upos
        inPacket == packet - (upos % packet)
    IN  IF size < 0 THEN avail ELSE Min(size, Min(avail, inPacket))

\* streams[current_index].read(size) of a StreamCombiner
SourceRead(s, size) ==
    IF s.idx = 0
    THEN BytesIORead(s, size)
    ELSE LET k == UpstreamCount(s.up, size)
         IN  [d |-> SubSeq(input, s.up + 1, s.up + k), s |-> [s EXCEPT !.up = s.up + k]]

RECURSIVE CombinerRead(_, _)
CombinerRead(s, size) ==
    IF s.idx >= 2
    THEN [d |-> <<>>, s |-> s]
    ELSE LET r == SourceRead(s, size)
         IN  IF size # -1 /\ Len(r.d) < size /\ r.d # <<>>
             THEN LET more == CombinerRead([r.s EXCEPT !.idx = s.idx + 1], size - Len(r.d))
                  IN  [d |-> r.d \o more.d, s |-> more.s]
             ELSE IF r.d = <<>>
                  THEN CombinerRead([r.s EXCEPT !.idx = s.idx + 1], size)
                  ELSE r

\* stream.read(size), whatever the stream
Read(s, size) == IF s.kind = "bytesio" THEN BytesIORead(s, size) ELSE CombinerRead(s, size)

(***************************************************************************)
(* Results.  An operation on a stream yields a record with e, the error    *)
(* raised ("" if none), and s, the stream afterwards; a value returned is  *)
(* in v.  Then(r, F) is F applied to the result r of the step before,      *)
(* unless that step raised: the error then propagates.                     *)
(***************************************************************************)
Fail(e, s) == [e |-> e, v |-> 0, s |-> s]
Ok(v, s) == [e |-> "", v |-> v, s |-> s]
Then(r, F(_)) == IF r.e # "" THEN r ELSE F(r)

(***************************************************************************)
(* DumpIO                                                                  *)
(***************************************************************************)
\* the byte of a read of one byte
ByteOf(r) == IF r.d = <<>> THEN Fail("UnexpectedEof", r.s) ELSE Ok(r.d[1], r.s)

read_byte(s) == ByteOf(Read(s, 1))

\* the for loop of read_int from its i-th iteration on
RECURSIVE ReadMagnitude(_, _, _, _)
ReadMagnitude(s, i, int_size, value) ==
    IF i >= int_size
    THEN Ok(value, s)
    ELSE Then(read_byte(s), LAMBDA b :
              ReadMagnitude(b.s, i + 1, int_size,
                            IF b.v # 0 THEN value + b.v * Pow256(i) ELSE value))

\* read_int without the sign byte applied
read_int_unsigned(s, int_size) ==
    Then(read_byte(s), LAMBDA sign :
    Then(ReadMagnitude(sign.s, 0, int_size, 0), LAMBDA m :
    Ok(m.v, m.s)))

\* read_int
read_int(s, int_size) ==
    Then(read_byte(s), LAMBDA sign :
    Then(ReadMagnitude(sign.s, 0, int_size, 0), LAMBDA m :
    Ok(IF sign.v # 0 THEN -m.v ELSE m.v, m.s)))

\* the for loop of read_offset from its i-th iteration on;
\* offset |= byte_value << (i * 8): a zero byte adds nothing
RECURSIVE ReadOffsetFrom(_, _, _, _)
ReadOffsetFrom(s, i, offset_size, offset) ==
    IF i >= offset_size
    THEN Ok(offset, s)
    ELSE Then(read_byte(s), LAMBDA b :
              ReadOffsetFrom(b.s, i + 1, offset_size,
                             IF b.v # 0 THEN offset + b.v * Pow256(i) ELSE offset))

read_offset(s, offset_size) == ReadOffsetFrom(s, 0, offset_size, 0)

Abs(v) == IF v < 0 THEN -v ELSE v

\* write_int without the sign
write_int_unsigned(value, int_size) ==
    <<0>> \o [i \in 1..int_size |-> (Abs(value) \div Pow256(i - 1)) % 256]

\* write_int
write_int(value, int_size) ==
    <<IF value < 0 THEN 1 ELSE 0>> \o
    [i \in 1..int_size |-> (Abs(value) \div Pow256(i - 1)) % 256]

(***************************************************************************)
(* bytes.decode('utf-8'): whether the bytes are well-formed UTF-8          *)
(***************************************************************************)
IsCont(b) == b >= 128 /\ b <= 191

RECURSIVE Utf8From(_, _)
Utf8From(d, i) ==
    IF i > Len(d) THEN TRUE
    ELSE LET b == d[i]
             has(n) == i + n <= Len(d)
         IN  CASE b <= 127 -> Utf8From(d, i + 1)
               [] b >= 194 /\ b <= 223 ->
                    has(1) /\ IsCont(d[i + 1]) /\ Utf8From(d, i + 2)
               [] b >= 224 /\ b <= 239 ->
                    /\ has(2)
                    /\ IsCont(d[i + 1]) /\ IsCont(d[i + 2])
                    /\ (b = 224 => d[i + 1] >= 160)
                    /\ (b = 237 => d[i + 1] <= 159)
                    /\ Utf8From(d, i + 3)
               [] b >= 240 /\ b <= 244 ->
                    /\ has(3)
                    /\ IsCont(d[i + 1]) /\ IsCont(d[i + 2]) /\ IsCont(d[i + 3])
                    /\ (b = 240 => d[i + 1] >= 144)
                    /\ (b = 244 => d[i + 1] <= 143)
                    /\ Utf8From(d, i + 4)
               [] OTHER -> FALSE

Utf8Valid(d) == Utf8From(d, 1)

\* the bytes of a read of length bytes, decoded
StringOf(r, length) ==
    IF Len(r.d) # length THEN Fail("UnexpectedEof", r.s)
    ELSE IF ~Utf8Valid(r.d) THEN Fail("InvalidUtf8", r.s)
    ELSE Ok(r.d, r.s)

\* read_string: the string is kept as its bytes
read_string(s, int_size) ==
    Then(read_int(s, int_size), LAMBDA length :
    IF length.v <= 0 THEN Ok(<<>>, length.s)
    ELSE StringOf(Read(length.s, length.v), length.v))

(***************************************************************************)
(* HeaderParser.  Its results also carry dio, the widths of the codec,     *)
(* which parse sets as soon as it has read them.                           *)
(***************************************************************************)
WithDio(r, d) == [e |-> r.e, v |-> r.v, s |-> r.s, dio |-> d]

\* _validate_version: the error raised, "" if none
ValidateVersion(version) ==
    IF VersionLess(version, V1_12) \/ VersionLess(V1_16, version)
    THEN "UnsupportedVersion" ELSE ""

\* the compression_map of _parse_compression, for version >= 1.15
CompressionOfByte(b) ==
    CASE b = 0 -> "none" [] b = 1 -> "gzip" [] b = 2 -> "lz4" [] b = 3 -> "zlib"
      [] OTHER -> "unknown"

\* the mapping of the compression level, for version < 1.15
CompressionOfLevel(c) ==
    IF c = -1 THEN "zlib"
    ELSE IF c = 0 THEN "none"
    ELSE IF 1 <= c /\ c <= 9 THEN "gzip"
    ELSE "unknown"

\* _parse_compression taking the branch of the versions below 1.15 for every version
ParseCompressionAsLevel(s, version, int_size) ==
    Then(read_int(s, int_size), LAMBDA c :
    IF CompressionOfLevel(c.v) = "unknown" THEN Fail("BadCompression", c.s)
    ELSE Ok(CompressionOfLevel(c.v), c.s))

\* _parse_compression
ParseCompression(s, version, int_size) ==
    IF ~VersionLess(version, V1_15)
    THEN Then(read_byte(s), LAMBDA b :
         IF CompressionOfByte(b.v) = "unknown" THEN Fail("BadCompression", b.s)
         ELSE Ok(CompressionOfByte(b.v), b.s))
    ELSE Then(read_int(s, int_size), LAMBDA c :
         IF CompressionOfLevel(c.v) = "unknown" THEN Fail("BadCompression", c.s)
         ELSE Ok(CompressionOfLevel(c.v), c.s))

\* n consecutive read_int calls: the values in the order read
RECURSIVE ReadInts(_, _, _)
ReadInts(s, n, int_size) ==
    IF n = 0 THEN Ok(<<>>, s)
    ELSE Then(read_int(s, int_size), LAMBDA x :
         Then(ReadInts(x.s, n - 1, int_size), LAMBDA rest :
         Ok(<<x.v>> \o rest.v, rest.s)))

\* n consecutive read_string calls: the strings in the order read
RECURSIVE ReadStrings(_, _, _)
ReadStrings(s, n, int_size) ==
    IF n = 0 THEN Ok(<<>>, s)
    ELSE Then(read_string(s, int_size), LAMBDA x :
         Then(ReadStrings(x.s, n - 1, int_size), LAMBDA rest :
         Ok(<<x.v>> \o rest.v, rest.s)))

IsLeap(y) == (y % 4 = 0 /\ y % 100 # 0) \/ y % 400 = 0

DaysInMonth(y, m) ==
    IF m = 2 THEN (IF IsLeap(y) THEN 29 ELSE 28)
    ELSE IF m \in {4, 6, 9, 11} THEN 30 ELSE 31

\* whether datetime.datetime(year, month, day, hour, minute, second) is a date
ValidDate(year, month, day, hour, minute, second) ==
    /\ 1 <= year /\ year <= 9999
    /\ 1 <= month /\ month <= 12
    /\ 1 <= day /\ day <= DaysInMonth(year, month)
    /\ 0 <= hour /\ hour <= 23
    /\ 0 <= minute /\ minute <= 59
    /\ 0 <= second /\ second <= 59

\* _parse_date: sec, minute, hour, day, month, year, isdst
ParseDate(s, int_size) ==
    Then(ReadInts(s, 7, int_size), LAMBDA t :
    IF ~ValidDate(t.v[6] + 1900, t.v[5] + 1, t.v[4], t.v[3], t.v[2], t.v[1])
    THEN Fail("BadDate", t.s)
    ELSE Ok(<<t.v[6] + 1900, t.v[5] + 1, t.v[4], t.v[3], t.v[2], t.v[1]>>, t.s))

\* the Header that HeaderParser.parse returns
Header(version, compression_method, create_date, names, d) ==
    [magic |-> MAGIC_HEADER,
     version |-> version,
     database_name |-> names[1],
     server_version |-> names[2],
     pgdump_version |-> names[3],
     compression_method |-> compression_method,
     create_date |-> create_date,
     int_size |-> d.int_size,
     offset_size |-> d.offset_size]

\* HeaderParser.parse from the format byte on, the widths read being d
ParseHeaderTail(s, version, d) ==
    Then(WithDio(read_byte(s), d), LAMBDA fmt :
    IF fmt.v # CUSTOM_FORMAT THEN WithDio(Fail("UnsupportedFormat", fmt.s), d)
    ELSE Then(WithDio(ParseCompression(fmt.s, version, d.int_size), d), LAMBDA c :
         Then(WithDio(ParseDate(c.s, d.int_size), d), LAMBDA date :
         Then(WithDio(ReadStrings(date.s, 3, d.int_size), d), LAMBDA names :
         WithDio(Ok(Header(version, c.v, date.v, names.v, d), names.s), d)))))

\* the magic of a read of 5 bytes
MagicOf(r) == IF r.d # MAGIC_HEADER THEN Fail("BadMagic", r.s) ELSE Ok(r.d, r.s)

\* HeaderParser.parse(stream), the codec's widths being d before the call
ParseHeader(s, d) ==
    Then(WithDio(MagicOf(Read(s, 5)), d), LAMBDA magic :
    Then(WithDio(read_byte(magic.s), d), LAMBDA v1 :
    Then(WithDio(read_byte(v1.s), d), LAMBDA v2 :
    Then(WithDio(read_byte(v2.s), d), LAMBDA v3 :
    IF ValidateVersion(<<v1.v, v2.v, v3.v>>) # ""
    THEN WithDio(Fail(ValidateVersion(<<v1.v, v2.v, v3.v>>), v3.s), d)
    ELSE Then(WithDio(read_byte(v3.s), d), LAMBDA int_size :
         Then(WithDio(read_byte(int_size.s), d), LAMBDA offset_size :
         ParseHeaderTail(offset_size.s, <<v1.v, v2.v, v3.v>>,
                         [int_size |-> int_size.v, offset_size |-> offset_size.v])))))))

(***************************************************************************)
(* TocParser                                                               *)
(***************************************************************************)
OrNone(x) == IF x = <<>> THEN None ELSE x

\* _parse_section
ParseSection(section_idx) ==
    CASE section_idx = 1 -> "SECTION_PRE_DATA"
      [] section_idx = 2 -> "SECTION_DATA"
      [] section_idx = 3 -> "SECTION_POST_DATA"
      [] OTHER -> "SECTION_NONE"

IsDigit(b) == b >= 48 /\ b <= 57

RECURSIVE DigitsValue(_, _, _)
DigitsValue(d, i, acc) ==
    IF i > Len(d) THEN acc ELSE DigitsValue(d, i + 1, 10 * acc + (d[i] - 48))

\* whether int(dep_str) is a number, for a string of ASCII digits; any other string
\* is reported and skipped
IsInt(d) == d # <<>> /\ \A i \in 1..Len(d) : IsDigit(d[i])

\* _parse_dependencies: read strings up to the first empty one
RECURSIVE ParseDependencies(_, _, _)
ParseDependencies(s, int_size, deps) ==
    Then(read_string(s, int_size), LAMBDA x :
    IF x.v = <<>> THEN Ok(deps, x.s)
    ELSE ParseDependencies(x.s, int_size,
                           IF IsInt(x.v) THEN Append(deps, DigitsValue(x.v, 1, 0)) ELSE deps))

\* the TocEntry that _parse_entry returns
TocEntry(ids, a, section_idx, b, tableam, c, dependencies, data_state, offset) ==
    [dump_id |-> ids[1],
     had_dumper |-> ids[2] # 0,
     table_oid |-> OrNone(a[1]),
     oid |-> OrNone(a[2]),
     tag |-> OrNone(a[3]),
     desc |-> OrNone(a[4]),
     section |-> ParseSection(section_idx),
     defn |-> OrNone(b[1]),
     drop_stmt |-> OrNone(b[2]),
     copy_stmt |-> OrNone(b[3]),
     namespace |-> OrNone(b[4]),
     tablespace |-> OrNone(b[5]),
     tableam |-> tableam,
     owner |-> OrNone(c[1]),
     with_oids |-> OrNone(c[2]),
     dependencies |-> dependencies,
     data_state |-> data_state,
     offset |-> offset]

\* tableam of _parse_entry read whatever the version
ReadTableamAlways(s, version, int_size) == read_string(s, int_size)

\* tableam of _parse_entry: read only from version 1.14 on
ReadTableam(s, version, int_size) ==
    IF ~VersionLess(version, V1_14) THEN read_string(s, int_size) ELSE Ok(None, s)

\* _parse_entry: dump_id, had_dumper; table_oid, oid, tag, desc; section; defn,
\* drop_stmt, copy_stmt, namespace, tablespace; tableam; owner, with_oids;
\* dependencies; data_state; offset
ParseEntry(s, version, d) ==
    Then(ReadInts(s, 2, d.int_size), LAMBDA ids :
    Then(ReadStrings(ids.s, 4, d.int_size), LAMBDA a :
    Then(read_int(a.s, d.int_size), LAMBDA sec :
    Then(ReadStrings(sec.s, 5, d.int_size), LAMBDA b :
    Then(ReadTableam(b.s, version, d.int_size), LAMBDA tableam :
    Then(ReadStrings(tableam.s, 2, d.int_size), LAMBDA c :
    Then(ParseDependencies(c.s, d.int_size, <<>>), LAMBDA deps :
    Then(read_byte(deps.s), LAMBDA data_state :
    Then(read_offset(data_state.s, d.offset_size), LAMBDA offset :
    Ok(TocEntry(ids.v, a.v, sec.v, b.v, tableam.v, c.v, deps.v, data_state.v, offset.v),
       offset.s))))))))))

\* the entries parsed as far as the buffer goes: no error at its end
RECURSIVE ParseEntriesUntilEof(_, _, _, _)
ParseEntriesUntilEof(s, version, d, n) ==
    IF n <= 0 \/ s.pos >= Len(s.data) THEN Ok(<<>>, s)
    ELSE Then(ParseEntry(s, version, d), LAMBDA x :
         Then(ParseEntriesUntilEof(x.s, version, d, n - 1), LAMBDA rest :
         Ok(<<x.v>> \o rest.v, rest.s)))

\* [_parse_entry(stream, version) for _ in range(n)]: nothing for n <= 0
RECURSIVE ParseEntries(_, _, _, _)
ParseEntries(s, version, d, n) ==
    IF n <= 0 THEN Ok(<<>>, s)
    ELSE Then(ParseEntry(s, version, d), LAMBDA x :
         Then(ParseEntries(x.s, version, d, n - 1), LAMBDA rest :
         Ok(<<x.v>> \o rest.v, rest.s)))

\* TocParser.parse
ParseToc(s, version, d) ==
    Then(read_int(s, d.int_size), LAMBDA num_entries :
    ParseEntries(num_entries.s, version, d, num_entries.v))

\* the body of the try of _parse_header_and_toc on the rewound buffer:
\* [e, v |-> the Dump, s |-> the buffer afterwards, dio]
ParseDump(buf, d) ==
    Then(ParseHeader(BytesIO(buf), d), LAMBDA h :
    Then(WithDio(ParseToc(h.s, h.v.version, h.dio), h.dio), LAMBDA toc :
    WithDio(Ok([header |-> h.v, toc_entries |-> toc.v], toc.s), h.dio)))

(***************************************************************************)
(* zlib, as a format with the properties the engine relies on: a stream is *)
(* a header byte, then records (1, b) each carrying one byte b of the      *)
(* plaintext, then the end record 0.  A decompressobj takes the stream in  *)
(* pieces, raises on a malformed one, ignores what follows the end record  *)
(* and does not raise when the stream is cut short.                        *)
(***************************************************************************)
ZHeader == 120

ZRecords(p, i) ==
    [k \in 1..2 * (Len(p) + 1 - i) |-> IF k % 2 = 1 THEN 1 ELSE p[i - 1 + k \div 2]] \o <<0>>

\* zlib.compress(data)
zlib_compress(data) == <<ZHeader>> \o ZRecords(data, 1)

\* zlib.decompressobj()
Decompressobj == [st |-> "header", plain |-> <<>>, e |-> ""]

\* the decompressor z after one more byte b of the stream
DecompressByte(z, b) ==
    IF z.e # "" \/ z.st = "end" THEN z
    ELSE CASE z.st = "header" ->
                IF b = ZHeader THEN [z EXCEPT !.st = "record"] ELSE [z EXCEPT !.e = "Corrupt"]
           [] z.st = "record" ->
                IF b = 1 THEN [z EXCEPT !.st = "literal"]
                ELSE IF b = 0 THEN [z EXCEPT !.st = "end"]
                ELSE [z EXCEPT !.e = "Corrupt"]
           [] OTHER -> [z EXCEPT !.st = "record", !.plain = Append(z.plain, b)]

\* z after the halves l and r of a run of bytes, r having started where l ended and
\* each with the output of its own half
DecompressJoin(z, l, r) == [r EXCEPT !.plain = z.plain \o l.plain \o r.plain]

\* z after the bytes lo..hi of data, taken in order, half by half
RECURSIVE DecompressRange(_, _, _, _)
DecompressRange(z, data, lo, hi) ==
    IF lo > hi THEN z
    ELSE IF lo = hi THEN DecompressByte(z, data[lo])
    ELSE LET mid == (lo + hi) \div 2
             l == DecompressRange([z EXCEPT !.plain = <<>>], data, lo, mid)
             r == DecompressRange([l EXCEPT !.plain = <<>>], data, mid + 1, hi)
         IN  IF l.e # "" \/ l.st = "end" THEN [l EXCEPT !.plain = z.plain \o l.plain]
             ELSE DecompressJoin(z, l, r)

\* decompressor.decompress(data) from byte i of data on: the decompressor afterwards,
\* its output so far in plain, e set if zlib.error was raised
DecompressFrom(z, data, i) == DecompressRange(z, data, i, Len(data))

(***************************************************************************)
(* The transformer, DataProcessor.process: opaque to the engine.  Each     *)
(* call behaves in one of these ways.                                      *)
(***************************************************************************)
Transformers == {"identity", "upper", "grow", "fail"}

Upper(b) == IF b >= 97 /\ b <= 122 THEN b - 32 ELSE b

\* what the call returns, for a call that returns
Transform(t, data) ==
    IF data = None THEN None
    ELSE CASE t = "upper" -> [i \in 1..Len(data) |-> Upper(data[i])]
           [] t = "grow" -> data \o <<33>>
           [] OTHER -> data

(***************************************************************************)
(* DataBlockProcessor.  The result of processing a block: e, s, then w the *)
(* bytes written downstream, flushed whether downstream was flushed after  *)
(* them, args the arguments of the transformer calls made, in order.       *)
(***************************************************************************)
Done(e, s, w, flushed, args) ==
    [e |-> e, v |-> 0, s |-> s, w |-> w, flushed |-> flushed, args |-> args]

\* a codec result as the result of a block that has written w so far
InBlock(r, w) == [e |-> r.e, v |-> r.v, s |-> r.s, w |-> w, flushed |-> FALSE, args |-> <<>>]

\* _write_data_block: the bytes written
WriteDataBlock(dump_id, data, int_size) ==
    <<DATA>> \o write_int(dump_id, int_size) \o write_int(Len(data), int_size) \o data

\* decompressor.decompress(the chunk read), the chunk being chunk_size bytes
DecompressChunk(chunk, chunk_size, z) ==
    IF Len(chunk.d) # chunk_size THEN Fail("Corrupt", chunk.s)
    ELSE IF DecompressFrom(z, chunk.d, 1).e # "" THEN Fail("Corrupt", chunk.s)
    ELSE Ok(DecompressFrom(z, chunk.d, 1), chunk.s)

\* the chunk loop leaving after a chunk of ZLIB_CHUNK_SIZE bytes too
RECURSIVE ReadChunksStopAtFull(_, _, _)
ReadChunksStopAtFull(s, z, int_size) ==
    Then(read_int(s, int_size), LAMBDA chunk_size :
    IF chunk_size.v = 0 THEN Ok(z, chunk_size.s)
    ELSE Then(DecompressChunk(Read(chunk_size.s, chunk_size.v), chunk_size.v, z), LAMBDA z2 :
         IF chunk_size.v <= ZLIB_CHUNK_SIZE THEN z2
         ELSE ReadChunksStopAtFull(z2.s, z2.v, int_size)))

\* the chunk loop of _process_compressed_block: v is the decompressor after it
RECURSIVE ReadChunks(_, _, _)
ReadChunks(s, z, int_size) ==
    Then(read_int(s, int_size), LAMBDA chunk_size :
    IF chunk_size.v = 0 THEN Ok(z, chunk_size.s)
    ELSE Then(DecompressChunk(Read(chunk_size.s, chunk_size.v), chunk_size.v, z), LAMBDA z2 :
         IF chunk_size.v < ZLIB_CHUNK_SIZE THEN z2
         ELSE ReadChunks(z2.s, z2.v, int_size)))

\* _process_compressed_block writing the tag and the dump-id before it reads the chunks
ProcessCompressedBlockEager(s, dump_id, int_size, t) ==
    Then(InBlock(ReadChunks(s, Decompressobj, int_size), <<DATA>> \o write_int(dump_id, int_size)),
         LAMBDA c :
    IF t = "fail" THEN Done("TransformerFailure", c.s, c.w, FALSE, <<c.v.plain>>)
    ELSE Done("", c.s,
              WriteDataBlock(dump_id, zlib_compress(Transform(t, c.v.plain)), int_size),
              TRUE, <<c.v.plain>>))

\* _process_compressed_block, the transformer behaving as t
ProcessCompressedBlock(s, dump_id, int_size, t) ==
    Then(InBlock(ReadChunks(s, Decompressobj, int_size), <<>>), LAMBDA c :
    IF t = "fail" THEN Done("TransformerFailure", c.s, <<>>, FALSE, <<c.v.plain>>)
    ELSE Done("", c.s,
              WriteDataBlock(dump_id, zlib_compress(Transform(t, c.v.plain)), int_size),
              TRUE, <<c.v.plain>>))

\* the body of _process_uncompressed_block with the length of the data read written as
\* the length field
ProcessUncompressedDataOldLength(data, size, dump_id, int_size, t) ==
    IF Len(data.d) # size THEN Done("Corrupt", data.s, <<>>, FALSE, <<>>)
    ELSE IF t = "fail" THEN Done("TransformerFailure", data.s, <<>>, FALSE, <<data.d>>)
    ELSE Done("", data.s,
              <<DATA>> \o write_int(dump_id, int_size) \o write_int(size, int_size)
                 \o Transform(t, data.d),
              TRUE, <<data.d>>)

\* the rest of _process_uncompressed_block after the read of size bytes
ProcessUncompressedData(data, size, dump_id, int_size, t) ==
    IF Len(data.d) # size THEN Done("Corrupt", data.s, <<>>, FALSE, <<>>)
    ELSE IF t = "fail" THEN Done("TransformerFailure", data.s, <<>>, FALSE, <<data.d>>)
    ELSE Done("", data.s, WriteDataBlock(dump_id, Transform(t, data.d), int_size),
              TRUE, <<data.d>>)

\* _process_uncompressed_block, the transformer behaving as t
ProcessUncompressedBlock(s, dump_id, int_size, t) ==
    Then(InBlock(read_int(s, int_size), <<>>), LAMBDA size :
    ProcessUncompressedData(Read(size.s, size.v), size.v, dump_id, int_size, t))

\* process_block leaving alone the blocks of a dump that is not compressed with zlib
ProcessBlockZlibOnly(s, dump_id, compression, int_size, t) ==
    IF compression = "zlib"
    THEN ProcessCompressedBlock(s, dump_id, int_size, t)
    ELSE Then(InBlock(read_int(s, int_size), <<>>), LAMBDA size :
         IF Len(Read(size.s, size.v).d) # size.v
         THEN Done("Corrupt", Read(size.s, size.v).s, <<>>, FALSE, <<>>)
         ELSE Done("", Read(size.s, size.v).s,
                   WriteDataBlock(dump_id, Read(size.s, size.v).d, int_size), TRUE, <<>>))

\* process_block with a _write_data_block that does not flush downstream
ProcessBlockUnflushed(s, dump_id, compression, int_size, t) ==
    [(IF compression = "zlib"
      THEN ProcessCompressedBlock(s, dump_id, int_size, t)
      ELSE ProcessUncompressedBlock(s, dump_id, int_size, t)) EXCEPT !.flushed = FALSE]

\* process_block
ProcessBlock(s, dump_id, compression, int_size, t) ==
    IF compression = "zlib"
    THEN ProcessCompressedBlock(s, dump_id, int_size, t)
    ELSE ProcessUncompressedBlock(s, dump_id, int_size, t)

(***************************************************************************)
(* DumpProcessor                                                           *)
(***************************************************************************)
\* the copy loop of _pass_through_block: v is the bytes copied
RECURSIVE PassThroughCopy(_, _, _)
PassThroughCopy(s, remaining, copied) ==
    IF remaining <= 0 THEN Ok(copied, s)
    ELSE Then([e |-> "", v |-> 0, s |-> s, r |-> Read(s, Min(remaining, DEFAULT_BUFFER_SIZE))],
              LAMBDA chunk :
              IF chunk.r.d = <<>> THEN Ok(copied, chunk.r.s)
              ELSE PassThroughCopy(chunk.r.s, remaining - Len(chunk.r.d), copied \o chunk.r.d))

\* _pass_through_block
PassThroughBlock(s, block_type, dump_id, int_size) ==
    Then(InBlock(read_int(s, int_size), <<block_type>> \o write_int(dump_id, int_size)),
         LAMBDA size :
    Then(PassThroughCopy(size.s, size.v, <<>>), LAMBDA c :
    Done("", c.s, size.w \o write_int(size.v, int_size) \o c.v, TRUE, <<>>)))

\* get_table_data_entries without its filter on desc
TableDataEntriesAnyDesc(d) == 1..Len(d.toc_entries)

\* the indices of get_table_data_entries
TableDataEntries(d) ==
    {i \in 1..Len(d.toc_entries) : d.toc_entries[i].desc = TABLE_DATA}

\* dump_ids of _process_data_blocks
DumpIds(d) == {d.toc_entries[i].dump_id : i \in TableDataEntries(d)}

\* the last of a non-empty set of indices
Last(is) == CHOOSE i \in is : \A k \in is : k <= i

\* dump_copy_stmts[dump_id]: of the entries with that dump_id the last one's
CopyStmt(d, dump_id) ==
    d.toc_entries[Last({i \in TableDataEntries(d) :
                          d.toc_entries[i].dump_id = dump_id})].copy_stmt

\* dump_comments of _process_data_blocks
DumpComments(d) ==
    {d.toc_entries[i].defn : i \in {k \in 1..Len(d.toc_entries) : d.toc_entries[k].desc = COMMENT}}

\* the index in input, from 0, of the next byte the stream will deliver
AbsPos(s) == IF s.idx = 0 THEN s.up - (Len(s.data) - s.pos) ELSE s.up

\* the result of an iteration of the loop of _process_data_blocks: the result r of
\* the branch taken, with what (the branch), stop (whether the loop ends), dump_id
Iteration(what, stop, dump_id, r) ==
    [e |-> r.e, s |-> r.s, w |-> r.w, flushed |-> r.flushed, args |-> r.args,
     stop |-> stop \/ r.e # "", what |-> what, dump_id |-> dump_id]

\* the DATA branch once the dump-id is read: a table's data is processed, after the
\* transformer is given its copy statement; other data is passed through
DataBranch(s, d, dump_id, int_size, t1, t2) ==
    IF dump_id \in DumpIds(d)
    THEN IF t1 = "fail"
         THEN Done("TransformerFailure", s, <<>>, FALSE, <<CopyStmt(d, dump_id)>>)
         ELSE [ProcessBlock(s, dump_id, d.header.compression_method, int_size, t2)
                 EXCEPT !.args = <<CopyStmt(d, dump_id)>> \o @]
    ELSE PassThroughBlock(s, DATA, dump_id, int_size)

\* the DATA branch, dump_id being the result of reading the dump-id
DataIteration(dump_id, d, int_size, t1, t2) ==
    IF dump_id.e # "" THEN Iteration("data", TRUE, 0, dump_id)
    ELSE Iteration(IF dump_id.v \in DumpIds(d) THEN "table" ELSE "pass", FALSE, dump_id.v,
                   DataBranch(dump_id.s, d, dump_id.v, int_size, t1, t2))

\* the branch on the block_type read, without the break after END
TagBranchNoBreak(block_type, d, int_size, t1, t2) ==
    IF block_type.d = <<>>
    THEN Iteration("eof", TRUE, 0, Done("", block_type.s, <<>>, FALSE, <<>>))
    ELSE IF block_type.d = <<DATA>>
    THEN DataIteration(InBlock(read_int(block_type.s, int_size), <<>>), d, int_size, t1, t2)
    ELSE Iteration("other", FALSE, 0, Done("", block_type.s, block_type.d, FALSE, <<>>))

\* the branch on the block_type read, the loop going on when the read returns nothing
TagBranchNoEofBreak(block_type, d, int_size, t1, t2) ==
    IF block_type.d = <<>>
    THEN Iteration("eof", FALSE, 0, Done("", block_type.s, <<>>, FALSE, <<>>))
    ELSE IF block_type.d = <<DATA>>
    THEN DataIteration(InBlock(read_int(block_type.s, int_size), <<>>), d, int_size, t1, t2)
    ELSE Iteration("other", block_type.d = <<END>>, 0,
                   Done("", block_type.s, block_type.d, FALSE, <<>>))

\* the branch on the block_type read
TagBranch(block_type, d, int_size, t1, t2) ==
    IF block_type.d = <<>>
    THEN Iteration("eof", TRUE, 0, Done("", block_type.s, <<>>, FALSE, <<>>))
    ELSE IF block_type.d = <<DATA>>
    THEN DataIteration(InBlock(read_int(block_type.s, int_size), <<>>), d, int_size, t1, t2)
    ELSE Iteration("other", block_type.d = <<END>>, 0,
                   Done("", block_type.s, block_type.d, FALSE, <<>>))

\* one iteration of the while loop of _process_data_blocks, the transformer behaving
\* as t1 on the copy statement and as t2 on the payload
BlockLoopBody(s, d, int_size, t1, t2) == TagBranch(Read(s, 1), d, int_size, t1, t2)

(***************************************************************************)
(* The dumps upstream may hold.  A dump is described by a record and       *)
(* encoded to bytes in the layout pg_dump -Fc writes it in.                *)
(***************************************************************************)
\* upstream delivers in packets of PacketSize bytes, or as much as is asked for
PacketSize == 3
\* up to MaxCut bytes are missing from the end of the input
MaxCut == 12

\* an int with the sign byte and the magnitude given
EncInt(sign, magnitude, int_size) ==
    <<sign>> \o [i \in 1..int_size |-> (magnitude \div Pow256(i - 1)) % 256]

EncString(str, int_size) == EncInt(0, Len(str), int_size) \o str

RECURSIVE Concat(_)
Concat(ss) == IF ss = <<>> THEN <<>> ELSE Head(ss) \o Concat(Tail(ss))

\* h: [magic, version, int_size, offset_size, format, compression (its bytes), date]
EncHeader(h) ==
    h.magic \o h.version \o <<h.int_size, h.offset_size, h.format>> \o h.compression
    \o Concat([i \in 1..7 |-> EncInt(0, h.date[i], h.int_size)])
    \o EncString(<<100, 98>>, h.int_size)
    \o EncString(<<49, 54>>, h.int_size)
    \o EncString(<<>>, h.int_size)

\* e: [dump_id, desc, defn, copy_stmt, dep]
EncEntry(e, h) ==
    LET str(x) == EncString(x, h.int_size)
    IN  EncInt(0, e.dump_id, h.int_size) \o EncInt(0, 1, h.int_size)
        \o str(<<>>) \o str(<<>>) \o str(<<116>>) \o str(e.desc)
        \o EncInt(0, 2, h.int_size)
        \o str(e.defn) \o str(<<>>) \o str(e.copy_stmt) \o str(<<>>) \o str(<<>>)
        \o (IF ~VersionLess(h.version, V1_14) THEN str(<<104>>) ELSE <<>>)
        \o str(<<111>>) \o str(<<>>)
        \o (IF e.dep = <<>> THEN <<>> ELSE str(e.dep)) \o str(<<>>)
        \o <<1>> \o [i \in 1..h.offset_size |-> 0]

EncToc(count, entries, h) ==
    count \o Concat([i \in 1..Len(entries) |-> EncEntry(entries[i], h)])

\* the zlib stream of a chunked block: not a zlib stream if the block is bad
ChunkOf(b) ==
    IF b.bad THEN <<ZHeader + 1>> \o Tail(zlib_compress(b.payload))
    ELSE zlib_compress(b.payload)

\* b: [tag, sign, id, lsign, payload, chunked, zero, bad]: a block with the dump-id's
\* sign byte and magnitude, and the payload either as one size-prefixed run of bytes
\* (the size's sign byte lsign) or, chunked, as one zlib chunk, followed by the
\* zero-size chunk if zero.  A tag other than DATA and BLOBS stands alone.
EncBlock(b, h) ==
    IF b.tag \notin {DATA, BLOBS} THEN <<b.tag>>
    ELSE <<b.tag>> \o EncInt(b.sign, b.id, h.int_size)
         \o (IF b.chunked
             THEN (IF b.payload = None THEN <<>>
                   ELSE EncInt(0, Len(ChunkOf(b)), h.int_size) \o ChunkOf(b))
                  \o (IF b.zero THEN EncInt(0, 0, h.int_size) ELSE <<>>)
             ELSE EncInt(b.lsign, Len(b.payload), h.int_size) \o b.payload)

\* a dump: [h, count, entries, blocks]
EncPrefix(g) == EncHeader(g.h) \o EncToc(g.count, g.entries, g.h)
EncBlocks(g) == Concat([i \in 1..Len(g.blocks) |-> EncBlock(g.blocks[i], g.h)])
Encode(g) == EncPrefix(g) \o EncBlocks(g)

\* the header fields: a date of 2025-01-04 03:02:01
Hdr(magic, version, int_size, offset_size, format, compression) ==
    [magic |-> magic, version |-> version, int_size |-> int_size,
     offset_size |-> offset_size, format |-> format, compression |-> compression,
     date |-> <<1, 2, 3, 4, 0, 125, 0>>]

GoodHdr(version, int_size, offset_size, compression) ==
    Hdr(MAGIC_HEADER, version, int_size, offset_size, CUSTOM_FORMAT, compression)

\* headers the parser accepts, of every compression method in both encodings
HdrZlib13 == GoodHdr(<<1, 13, 0>>, 1, 1, EncInt(1, 1, 1))
HdrNone14 == GoodHdr(<<1, 14, 0>>, 1, 1, EncInt(0, 0, 1))
HdrZlib15 == GoodHdr(<<1, 15, 0>>, 2, 1, <<3>>)
HdrGzip16 == GoodHdr(<<1, 16, 0>>, 1, 2, <<1>>)
HdrLz415 == GoodHdr(<<1, 15, 0>>, 1, 1, <<2>>)
HdrGzip12 == GoodHdr(<<1, 12, 0>>, 1, 1, EncInt(0, 6, 1))
HdrZlib14Wide == GoodHdr(<<1, 14, 0>>, 4, 8, EncInt(1, 1, 4))

ValidHeaders == {HdrZlib13, HdrNone14, HdrZlib15, HdrGzip16, HdrLz415, HdrGzip12, HdrZlib14Wide}

\* headers the parser rejects: magic, version, format, compression, date
InvalidHeaders ==
    { Hdr(<<80, 71, 68, 77, 88>>, <<1, 14, 0>>, 1, 1, CUSTOM_FORMAT, EncInt(0, 0, 1)),
      GoodHdr(<<1, 17, 0>>, 1, 1, <<0>>),
      GoodHdr(<<1, 11, 0>>, 1, 1, EncInt(0, 0, 1)),
      Hdr(MAGIC_HEADER, <<1, 14, 0>>, 1, 1, 3, EncInt(0, 0, 1)),
      GoodHdr(<<1, 15, 0>>, 1, 1, <<9>>),
      GoodHdr(<<1, 13, 0>>, 1, 1, EncInt(0, 11, 1)),
      [GoodHdr(<<1, 14, 0>>, 1, 1, EncInt(0, 0, 1)) EXCEPT !.date = <<1, 2, 3, 31, 1, 125, 0>>] }

Entry(dump_id, desc, defn, copy_stmt, dep) ==
    [dump_id |-> dump_id, desc |-> desc, defn |-> defn, copy_stmt |-> copy_stmt, dep |-> dep]

\* the table t (dump-id 5) with a comment on it (dump-id 7), and a second table (9)
EntryTable5 == Entry(5, TABLE_DATA, <<>>, <<99>>, <<55>>)
EntryComment7 == Entry(7, COMMENT, <<107>>, <<>>, <<>>)
EntryTable9 == Entry(9, TABLE_DATA, <<>>, <<101>>, <<120>>)
EntryBadUtf8 == Entry(8, <<84>>, <<255>>, <<>>, <<>>)

Tocs ==
    { <<>>, <<EntryTable5>>, <<EntryTable5, EntryComment7, EntryTable9>>,
      <<EntryComment7, EntryBadUtf8>> }

\* blocks: of a table's data (framed by the dump's compression), of other data
\* (dump-id 3, in no TOC entry), of blobs, and the END marker
Block(tag, sign, id, lsign, payload, chunked, zero) ==
    [tag |-> tag, sign |-> sign, id |-> id, lsign |-> lsign, payload |-> payload,
     chunked |-> chunked, zero |-> zero, bad |-> FALSE]

TableBlock(id, payload) == Block(DATA, 0, id, 0, payload, FALSE, TRUE)
OtherBlock(sign, id, lsign, payload) == Block(DATA, sign, id, lsign, payload, FALSE, FALSE)
BlobsBlock(payload) == Block(BLOBS, 0, 6, 0, payload, FALSE, FALSE)
EndBlock == Block(END, 0, 0, 0, <<>>, FALSE, FALSE)

BlockLists ==
    { <<>>,
      <<EndBlock>>,
      <<TableBlock(5, <<97, 108>>), EndBlock>>,
      <<TableBlock(5, <<97>>), OtherBlock(0, 3, 0, <<1, 4>>), TableBlock(9, <<98>>), EndBlock>>,
      <<OtherBlock(0, 3, 0, <<4, 1, 7>>), TableBlock(5, <<97>>)>>,
      <<OtherBlock(2, 3, 0, <<8>>), OtherBlock(1, 0, 1, <<>>), EndBlock>>,
      <<BlobsBlock(<<9, 4, 1>>), TableBlock(5, <<97>>), EndBlock>>,
      <<TableBlock(5, <<>>), TableBlock(9, <<98>>), EndBlock>>,
      <<TableBlock(5, None), TableBlock(9, <<98, 98>>), EndBlock>>,
      <<[TableBlock(5, <<97>>) EXCEPT !.zero = FALSE], TableBlock(9, <<98>>), EndBlock>>,
      <<OtherBlock(0, 7, 0, <<5>>), EndBlock, OtherBlock(0, 3, 0, <<8>>)>>,
      <<OtherBlock(0, 3, 0, <<6>>), [TableBlock(9, <<98>>) EXCEPT !.bad = TRUE], EndBlock>> }

IsTableBlock(b, entries) ==
    /\ b.tag = DATA
    /\ \E i \in 1..Len(entries) : entries[i].desc = TABLE_DATA /\ entries[i].dump_id = b.id

\* whether the header announces zlib
AnnouncesZlib(h) ==
    IF ~VersionLess(h.version, V1_15) THEN h.compression = <<3>>
    ELSE h.compression = EncInt(1, 1, h.int_size)

\* a dump of these parts: the data of its tables is chunked when the header
\* announces zlib; a payload None (no chunk before the zero chunk) is empty otherwise
Dump(h, entries, blocks) ==
    [h |-> h, count |-> EncInt(0, Len(entries), h.int_size), entries |-> entries,
     blocks |-> [i \in 1..Len(blocks) |->
                   IF IsTableBlock(blocks[i], entries)
                   THEN [blocks[i] EXCEPT
                           !.chunked = AnnouncesZlib(h),
                           !.payload = IF @ = None /\ ~AnnouncesZlib(h) THEN <<>> ELSE @]
                   ELSE blocks[i]]]

FullToc == <<EntryTable5, EntryComment7, EntryTable9>>

Dumps ==
    {Dump(h, FullToc, bs) : h \in {HdrZlib13, HdrNone14}, bs \in BlockLists}
    \cup {Dump(h, FullToc, <<TableBlock(5, <<97, 108>>), EndBlock>>) : h \in ValidHeaders}
    \cup {Dump(HdrNone14, es, <<OtherBlock(0, 3, 0, <<4, 1, 7>>), EndBlock>>) : es \in Tocs}
    \cup {Dump(h, <<>>, <<EndBlock>>) : h \in InvalidHeaders \cup {HdrZlib14Wide}}
    \cup {[Dump(HdrNone14, <<EntryTable5>>, <<EndBlock>>) EXCEPT !.count = EncInt(1, 1, 1)]}

Packets == {PacketSize, DEFAULT_BUFFER_SIZE}

Cut(bytes, n) == SubSeq(bytes, 1, Len(bytes) - Min(n, Len(bytes)))

(***************************************************************************)
(* The state machine: process_stream                                       *)
(***************************************************************************)
NoDump == [header |-> None, toc_entries |-> <<>>]

Idle == [what |-> "init", e |-> "", w |-> <<>>, args |-> <<>>, dump_id |-> 0,
         tagAt |-> 0, outBefore |-> <<>>, from |-> 0, flushed |-> FALSE, t |-> ""]

Init ==
    /\ scn \in Dumps
    /\ \E n \in 0..MaxCut : input = Cut(Encode(scn), n)
    /\ packet \in Packets
    /\ pc = "header"
    /\ up = 0
    /\ upReads = 0
    /\ buffer = <<>>
    /\ dio = [int_size |-> DEFAULT_INT_SIZE, offset_size |-> DEFAULT_OFFSET_SIZE]
    /\ dump = NoDump
    /\ comb = StreamCombiner(<<>>, 0)
    /\ pending = {}
    /\ out = <<>>
    /\ flushedAt = 0
    /\ calls = <<>>
    /\ err = ""
    /\ last = Idle
    /\ tagsAt = <<>>
    /\ unit = ""
    /\ arg = <<>>
    /\ res = <<>>

\* the rest of the buffer forgotten
RemainingDataDropped(buf, toc_end_pos) == <<>>

\* remaining_data of _parse_header_and_toc: buffer.read() after buffer.read(toc_end_pos)
RemainingData(buf, toc_end_pos) == SubSeq(buf, toc_end_pos + 1, Len(buf))

\* input_stream.read(DEFAULT_BUFFER_SIZE) of _parse_header_and_toc
HeaderChunk == SubSeq(input, up + 1, up + UpstreamCount(up, DEFAULT_BUFFER_SIZE))

\* one iteration of the while loop: upstream is at its end
HeaderEof ==
    /\ pc = "header"
    /\ HeaderChunk = <<>>
    /\ pc' = "error"
    /\ err' = "UnexpectedEof"
    /\ upReads' = upReads + 1
    /\ last' = [Idle EXCEPT !.what = "header", !.e = "UnexpectedEof"]
    /\ UNCHANGED <<input, packet, up, buffer, dio, dump, comb, pending, out, flushedAt,
                   calls, tagsAt, scn>>
    /\ UNCHANGED call

\* an iteration that fails to parse and writes the chunk it read downstream
HeaderRetryEcho ==
    /\ pc = "header"
    /\ HeaderChunk # <<>>
    /\ \E r \in {ParseDump(buffer \o HeaderChunk, dio)} :
           /\ r.e # ""
           /\ dio' = r.dio
           /\ last' = [Idle EXCEPT !.what = "header", !.e = r.e]
    /\ buffer' = buffer \o HeaderChunk
    /\ out' = out \o HeaderChunk
    /\ up' = up + Len(HeaderChunk)
    /\ upReads' = upReads + 1
    /\ UNCHANGED <<input, packet, pc, dump, comb, pending, flushedAt, calls, err,
                   tagsAt, scn>>
    /\ UNCHANGED call

\* one iteration of the while loop: the parse of the buffer raises, the loop continues
HeaderRetry ==
    /\ pc = "header"
    /\ HeaderChunk # <<>>
    /\ \E r \in {ParseDump(buffer \o HeaderChunk, dio)} :
           /\ r.e # ""
           /\ dio' = r.dio
           /\ last' = [Idle EXCEPT !.what = "header", !.e = r.e]
    /\ buffer' = buffer \o HeaderChunk
    /\ up' = up + Len(HeaderChunk)
    /\ upReads' = upReads + 1
    /\ UNCHANGED <<input, packet, pc, dump, comb, pending, out, flushedAt, calls, err,
                   tagsAt, scn>>
    /\ UNCHANGED call

\* the last iteration: the parse succeeds; the prefix is written and flushed and the
\* rest of the buffer is combined with upstream
HeaderParsed ==
    /\ pc = "header"
    /\ HeaderChunk # <<>>
    /\ \E buf \in {buffer \o HeaderChunk} : \E r \in {ParseDump(buf, dio)} :
         \E toc_end_pos \in {r.s.pos} :
           /\ r.e = ""
           /\ dio' = r.dio
           /\ dump' = r.v
           /\ out' = out \o SubSeq(buf, 1, toc_end_pos)
           /\ flushedAt' = Len(out')
           /\ comb' = StreamCombiner(RemainingData(buf, toc_end_pos), up + Len(HeaderChunk))
           /\ pending' = DumpComments(r.v)
           /\ pc' = IF DumpComments(r.v) = {} THEN "blocks" ELSE "comments"
           /\ last' = [Idle EXCEPT !.what = "parsed", !.w = SubSeq(buf, 1, toc_end_pos),
                                   !.flushed = TRUE]
    /\ buffer' = buffer \o HeaderChunk
    /\ up' = up + Len(HeaderChunk)
    /\ upReads' = upReads + 1
    /\ UNCHANGED <<input, packet, calls, err, tagsAt, scn>>
    /\ UNCHANGED call

\* one iteration of the loop over dump_comments, the transformer behaving as one of ts
ProcessCommentWith(ts) ==
    /\ pc = "comments"
    /\ \E c \in pending, t \in ts :
        /\ calls' = Append(calls, c)
        /\ pending' = pending \ {c}
        /\ err' = IF t = "fail" THEN "TransformerFailure" ELSE ""
        /\ pc' = IF t = "fail" THEN "error" ELSE IF pending = {c} THEN "blocks" ELSE "comments"
        /\ last' = [Idle EXCEPT !.what = "comment", !.args = <<c>>, !.e = err']
    /\ UNCHANGED <<input, packet, up, upReads, buffer, dio, dump, comb, out, flushedAt,
                   tagsAt, scn>>
    /\ UNCHANGED call

\* one iteration of the while loop of _process_data_blocks, the transformer behaving
\* as one of ts in each call
ProcessDataBlockWith(ts) ==
    /\ pc = "blocks"
    /\ \E t1 \in ts, t2 \in ts :
        \E r \in {BlockLoopBody(comb, dump, dio.int_size, t1, t2)} :
            /\ comb' = r.s
            /\ up' = r.s.up
            /\ out' = out \o r.w
            /\ flushedAt' = IF r.flushed THEN Len(out') ELSE flushedAt
            /\ calls' = calls \o r.args
            /\ err' = r.e
            /\ pc' = IF r.e # "" THEN "error" ELSE IF r.stop THEN "done" ELSE "blocks"
            /\ tagsAt' = IF r.what = "eof" THEN tagsAt ELSE Append(tagsAt, AbsPos(comb) + 1)
            /\ last' = [what |-> r.what, e |-> r.e, w |-> r.w, args |-> r.args,
                        dump_id |-> r.dump_id, tagAt |-> AbsPos(comb) + 1,
                        outBefore |-> out, from |-> AbsPos(r.s), flushed |-> r.flushed,
                        t |-> IF r.what = "table" /\ Len(r.args) = 2 THEN t2 ELSE ""]
    /\ UNCHANGED <<input, packet, upReads, buffer, dio, dump, pending, scn>>
    /\ UNCHANGED call

\* the iterations with a transformer that may change the data or fail
ProcessComment == ProcessCommentWith(Transformers)
ProcessDataBlock == ProcessDataBlockWith(Transformers)

\* the iterations with a transformer that returns its input unchanged
ProcessCommentIdentity == ProcessCommentWith({"identity"})
ProcessDataBlockIdentity == ProcessDataBlockWith({"identity"})

Next == HeaderEof \/ HeaderRetry \/ HeaderParsed \/ ProcessComment \/ ProcessDataBlock

Spec == Init /\ [][Next]_vars

\* process_stream with a DataProcessor whose process returns its argument
NextIdentity ==
    HeaderEof \/ HeaderRetry \/ HeaderParsed \/ ProcessCommentIdentity \/ ProcessDataBlockIdentity

SpecIdentity == Init /\ [][NextIdentity]_vars

(***************************************************************************)
(* DumpIO.write_int and DumpIO.read_int applied on their own: an integer   *)
(* is written with a DumpIO of some int_size, and the bytes written are    *)
(* read back with the same DumpIO.                                         *)
(***************************************************************************)
MaxIntSize == 3
MaxInt == 300

\* the integers tried: the small ones, and those next to a power of 256; all of them
\* are below 256^4
IntValues ==
    (-MaxInt..MaxInt) \cup {sg * (Pow256(k) - d) : sg \in {-1, 1}, k \in 1..3, d \in {0, 1}}

\* no run of process_stream
NoRun ==
    /\ input = <<>>
    /\ packet = DEFAULT_BUFFER_SIZE
    /\ pc = "unit"
    /\ up = 0
    /\ upReads = 0
    /\ buffer = <<>>
    /\ dio = [int_size |-> DEFAULT_INT_SIZE, offset_size |-> DEFAULT_OFFSET_SIZE]
    /\ dump = NoDump
    /\ comb = StreamCombiner(<<>>, 0)
    /\ pending = {}
    /\ out = <<>>
    /\ flushedAt = 0
    /\ calls = <<>>
    /\ err = ""
    /\ last = Idle
    /\ tagsAt = <<>>
    /\ scn = Dump(HdrNone14, <<>>, <<EndBlock>>)

InitInts ==
    /\ NoRun
    /\ unit = "ints"
    /\ arg \in [int_size : 1..MaxIntSize, value : IntValues]
    /\ res = [step |-> "start", bytes |-> <<>>, e |-> "", v |-> 0, left |-> 0]

\* result = DumpIO(int_size).write_int(value)
WriteInt ==
    /\ unit = "ints"
    /\ res.step = "start"
    /\ res' = [res EXCEPT !.step = "written", !.bytes = write_int(arg.value, arg.int_size)]
    /\ UNCHANGED <<unit, arg>>
    /\ UNCHANGED run

\* DumpIO(int_size).read_int(io.BytesIO(result)); left is what the stream still holds
ReadInt ==
    /\ unit = "ints"
    /\ res.step = "written"
    /\ \E r \in {read_int(BytesIO(res.bytes), arg.int_size)} :
          res' = [res EXCEPT !.step = "read", !.e = r.e, !.v = r.v,
                             !.left = Len(r.s.data) - r.s.pos]
    /\ UNCHANGED <<unit, arg>>
    /\ UNCHANGED run

NextInts == WriteInt \/ ReadInt

SpecInts == InitInts /\ [][NextInts]_vars

(***************************************************************************)
(* HeaderParser._parse_compression applied on its own, to a stream         *)
(* positioned at the compression field of a header of some version, the    *)
(* DumpIO having some int_size.                                            *)
(***************************************************************************)
MaxByte == 5
MaxLevel == 11

Versions == {<<1, 12, 0>>, <<1, 13, 0>>, <<1, 14, 0>>, <<1, 14, 9>>, <<1, 15, 0>>, <<1, 16, 0>>}

\* the bytes at the compression field and after it: a first byte, a second byte, and
\* MaxIntSize bytes more
CompressionFields ==
    {<<a, b>> \o [i \in 1..MaxIntSize |-> c] : a \in 0..MaxByte, b \in 0..MaxLevel, c \in {0, 1}}

InitCompression ==
    /\ NoRun
    /\ unit = "compression"
    /\ arg \in [version : Versions, int_size : 1..MaxIntSize, bytes : CompressionFields]
    /\ res = [step |-> "start", e |-> "", v |-> "", consumed |-> 0]

\* self._parse_compression(io.BytesIO(bytes), version)
ParseCompressionCall ==
    /\ unit = "compression"
    /\ res.step = "start"
    /\ \E r \in {ParseCompression(BytesIO(arg.bytes), arg.version, arg.int_size)} :
          res' = [step |-> "returned", e |-> r.e, v |-> IF r.e = "" THEN r.v ELSE "",
                  consumed |-> r.s.pos]
    /\ UNCHANGED <<unit, arg>>
    /\ UNCHANGED run

NextCompression == ParseCompressionCall

SpecCompression == InitCompression /\ [][NextCompression]_vars

(***************************************************************************)
(* DataBlockProcessor._process_compressed_block applied on its own, to a   *)
(* stream positioned after the dump-id of a block whose payload is a run   *)
(* of chunks, short ones and ones of ZLIB_CHUNK_SIZE bytes and more, with  *)
(* or without a zero-size chunk after them, and END after that.            *)
(***************************************************************************)
MaxChunks == 2

ChunkSizes == {3, ZLIB_CHUNK_SIZE - 1, ZLIB_CHUNK_SIZE, ZLIB_CHUNK_SIZE + 1}

ChunkLists == UNION {[1..n -> ChunkSizes] : n \in 0..MaxChunks}

RECURSIVE SumTo(_, _)
SumTo(sizes, n) == IF n = 0 THEN 0 ELSE SumTo(sizes, n - 1) + sizes[n]

\* the first n bytes of a zlib stream of letters, ended if n is even
ZStream(n) ==
    [p \in 1..n |-> IF p = 1 THEN ZHeader
                    ELSE IF p % 2 = 0 THEN (IF p = n THEN 0 ELSE 1)
                    ELSE 97 + ((p \div 2) % 26)]

\* chunk k of the payload: its size and its part of the zlib stream
ChunkAt(sizes, k, int_size) ==
    EncInt(0, sizes[k], int_size)
    \o SubSeq(ZStream(SumTo(sizes, Len(sizes))), SumTo(sizes, k - 1) + 1, SumTo(sizes, k))

ChunkedPayload(sizes, zero, int_size) ==
    Concat([k \in 1..Len(sizes) |-> ChunkAt(sizes, k, int_size)])
    \o (IF zero THEN EncInt(0, 0, int_size) ELSE <<>>) \o <<END>>

InitChunks ==
    /\ NoRun
    /\ unit = "chunks"
    /\ arg \in [int_size : {2, MaxIntSize}, sizes : ChunkLists, zero : BOOLEAN]
    /\ res = [step |-> "start", e |-> "", args |-> <<>>, consumed |-> 0, w |-> <<>>]

\* self._process_compressed_block(io.BytesIO(payload), output_stream, dump_id), the
\* transformer behaving as t
ProcessCompressedBlockCall ==
    /\ unit = "chunks"
    /\ res.step = "start"
    /\ \E t \in Transformers :
       \E r \in {ProcessCompressedBlock(
                     BytesIO(ChunkedPayload(arg.sizes, arg.zero, arg.int_size)),
                     5, arg.int_size, t)} :
          res' = [step |-> "returned", e |-> r.e, args |-> r.args, consumed |-> r.s.pos,
                  w |-> r.w]
    /\ UNCHANGED <<unit, arg>>
    /\ UNCHANGED run

NextChunks == ProcessCompressedBlockCall

SpecChunks == InitChunks /\ [][NextChunks]_vars

(***************************************************************************)
(* DataBlockProcessor.process_block applied on its own to one block of a   *)
(* table, and the block it writes read back as a reader of the dump reads  *)
(* it.                                                                     *)
(***************************************************************************)
\* the largest length an int of one byte holds
MaxPayload == 255

\* the numbers of bytes of table data in the block
BlockSizes ==
    {0, 1, MaxPayload \div 2 - 1, MaxPayload \div 2, MaxPayload - 1, MaxPayload,
     MaxPayload + 1}

\* n bytes of table data
TableData(n) == [i \in 1..n |-> 97 + (i % 26)]

\* the bytes of the data as the block holds them
StoredData(method, n) == IF method = "zlib" THEN zlib_compress(TableData(n)) ELSE TableData(n)

\* the block after its tag and dump-id: the length and the bytes, one chunk under zlib
StoredBlock(method, n, int_size) ==
    EncInt(0, Len(StoredData(method, n)), int_size) \o StoredData(method, n)

\* the length of the stored data fits an int of int_size bytes
Storable(method, n, int_size) ==
    int_size >= 4 \/ Len(StoredData(method, n)) < Pow256(int_size)

InitBlock ==
    /\ NoRun
    /\ unit = "block"
    /\ arg \in {a \in [int_size : 1..MaxIntSize, size : BlockSizes, method : {"none", "zlib"}] :
                   Storable(a.method, a.size, a.int_size)}
    /\ res = [step |-> "start", e |-> "", t |-> "", w |-> <<>>, payload |-> <<>>,
              tag |-> <<>>, dump_id |-> 0, length |-> 0, follow |-> 0]

\* processor.process_block(io.BytesIO(block), output_stream, dump_id, method), the
\* transformer behaving as t
ProcessBlockCall ==
    /\ unit = "block"
    /\ res.step = "start"
    /\ \E t \in Transformers :
       \E r \in {ProcessBlock(BytesIO(StoredBlock(arg.method, arg.size, arg.int_size)),
                              5, arg.method, arg.int_size, t)} :
          res' = [res EXCEPT !.step = "written", !.e = r.e, !.t = t, !.w = r.w,
                             !.payload =
                                 IF r.e # "" THEN <<>>
                                 ELSE IF arg.method = "zlib"
                                 THEN zlib_compress(Transform(t, TableData(arg.size)))
                                 ELSE Transform(t, TableData(arg.size))]
    /\ UNCHANGED <<unit, arg>>
    /\ UNCHANGED run

\* the block written read back: the tag, then read_int for the dump-id and the length,
\* follow the number of bytes after the length
ReadBlockBack ==
    /\ unit = "block"
    /\ res.step = "written"
    /\ res.e = ""
    /\ \E tag \in {Read(BytesIO(res.w), 1)} :
       \E dump_id \in {read_int(tag.s, arg.int_size)} :
       \E length \in {read_int(dump_id.s, arg.int_size)} :
          res' = [res EXCEPT !.step = "read", !.tag = tag.d, !.dump_id = dump_id.v,
                             !.length = length.v,
                             !.follow = Len(res.w) - length.s.pos]
    /\ UNCHANGED <<unit, arg>>
    /\ UNCHANGED run

NextBlock == ProcessBlockCall \/ ReadBlockBack

SpecBlock == InitBlock /\ [][NextBlock]_vars

(***************************************************************************)
(* The dump sent, for the properties: where its parts lie in the input     *)
(***************************************************************************)
\* the input is a dump the format allows: a header the parser accepts and a count
\* that is the number of entries, each of well-formed strings
ValidInput ==
    /\ scn.h \in ValidHeaders
    /\ scn.count = EncInt(0, Len(scn.entries), scn.h.int_size)
    /\ \A i \in 1..Len(scn.entries) : Utf8Valid(scn.entries[i].defn)

\* the number of bytes of header and TOC
PrefixLen == Len(EncPrefix(scn))

RECURSIVE BlocksLen(_)
BlocksLen(n) == IF n = 0 THEN 0 ELSE BlocksLen(n - 1) + Len(EncBlock(scn.blocks[n], scn.h))

\* the index in input, from 1, of the tag of the i-th block
BlockStart(i) == PrefixLen + BlocksLen(i - 1) + 1

\* the block whose tag is at index pos of the input, 0 if none
BlockIndexAt(pos) ==
    IF \E i \in 1..Len(scn.blocks) : BlockStart(i) = pos
    THEN CHOOSE i \in 1..Len(scn.blocks) : BlockStart(i) = pos
    ELSE 0

\* the blocks of tables' data among those whose tags were read, in order
TableBlocksRead ==
    LET at == SelectSeq(tagsAt, LAMBDA pos :
                  /\ BlockIndexAt(pos) > 0
                  /\ IsTableBlock(scn.blocks[BlockIndexAt(pos)], scn.entries))
    IN  [k \in 1..Len(at) |-> scn.blocks[BlockIndexAt(at[k])]]

\* the payload of a table's block as the transformer is to see it
PlainOf(b) == IF b.payload = None THEN <<>> ELSE b.payload

\* the copy statement of the TOC entry of a table's block
CopyOf(b) ==
    LET is == {i \in 1..Len(scn.entries) :
                 scn.entries[i].desc = TABLE_DATA /\ scn.entries[i].dump_id = b.id}
        e == scn.entries[CHOOSE i \in is : \A k \in is : k <= i]
    IN  IF e.copy_stmt = <<>> THEN None ELSE e.copy_stmt

\* the defns of the COMMENT entries of the TOC
CommentsOf ==
    {IF scn.entries[i].defn = <<>> THEN None ELSE scn.entries[i].defn :
       i \in {k \in 1..Len(scn.entries) : scn.entries[k].desc = COMMENT}}

IsPrefix(a, b) == Len(a) <= Len(b) /\ a = SubSeq(b, 1, Len(a))

BlockCallsExpected ==
    Concat([k \in 1..Len(TableBlocksRead) |->
              <<CopyOf(TableBlocksRead[k]), PlainOf(TableBlocksRead[k])>>])

\* the header and the TOC were parsed
Parsed == last.what \notin {"init", "header"}

\* the number of calls made with COMMENT defns
CommentCalls == IF ~Parsed THEN 0 ELSE Cardinality(CommentsOf) - Cardinality(pending)

BlockBytes(i) == EncBlock(scn.blocks[i], scn.h)
BlockComplete(i) == BlockStart(i) + Len(BlockBytes(i)) - 1 <= Len(input)

\* the position pos of the input lies in a BLOBS block, after its tag
InsideBlobs(pos) ==
    \E i \in 1..Len(scn.blocks) :
        /\ scn.blocks[i].tag = BLOBS
        /\ BlockStart(i) < pos
        /\ pos < BlockStart(i) + Len(BlockBytes(i))

(***************************************************************************)
(* C2: a BLOBS block (tag, dump-id, length, payload) is emitted as it is   *)
(* and the next tag is read after its payload: no byte of its dump-id,     *)
(* length or payload is read as a block-type tag.  The code writes the tag *)
(* alone and reads the next byte as a tag.                                 *)
(***************************************************************************)
C2_BlobsPassedAsBlock ==
    ValidInput =>
        /\ \A k \in 1..Len(tagsAt) : ~InsideBlobs(tagsAt[k])
        /\ \A i \in 1..Len(scn.blocks) :
              (/\ scn.blocks[i].tag = BLOBS
               /\ BlockComplete(i)
               /\ last.what = "other"
               /\ last.tagAt = BlockStart(i))
              => (last.w = BlockBytes(i) /\ last.from + 1 = BlockStart(i) + Len(BlockBytes(i)))

\* the block whose tag the last iteration read, 0 if it read none
LastBlock == BlockIndexAt(last.tagAt)

\* the last iteration read the tag of a DATA block that the input holds all of
AtDataBlock ==
    /\ ValidInput
    /\ last.what \in {"data", "table", "pass", "other"}
    /\ LastBlock > 0
    /\ scn.blocks[LastBlock].tag = DATA
    /\ BlockComplete(LastBlock)

\* the combiner has given up its live source though upstream holds more bytes
Starved == comb.idx >= 2 /\ comb.up < Len(input)

\* the bytes the last iteration wrote after a tag, a dump-id and a length
PayloadWritten == SubSeq(last.w, 2 * (scn.h.int_size + 1) + 2, Len(last.w))

\* a DATA block with the payload data, as pg_dump frames it
Framed(b, data) ==
    <<DATA>> \o EncInt(0, b.id, scn.h.int_size) \o EncInt(0, Len(data), scn.h.int_size) \o data

\* the block written for the table's block b when the transformer behaves as t
RewrittenAs(b, t) ==
    IF AnnouncesZlib(scn.h)
    THEN Framed(b, zlib_compress(Transform(t, PlainOf(b))))
    ELSE Framed(b, Transform(t, b.payload))

\* the last iteration handed the table's block b to the transformer, after the copy
\* statement, and wrote the block with the transformer's result; a failure of the
\* transformer, of a read once the reader is starved, or of decompression ends it early
TransformedBlock(b) ==
    /\ last.what = "table"
    /\ \/ /\ last.e = ""
          /\ last.args = <<CopyOf(b), PlainOf(b)>>
          /\ \E t \in Transformers \ {"fail"} : last.w = RewrittenAs(b, t)
       \/ /\ last.e = "TransformerFailure"
          /\ last.args \in {<<CopyOf(b)>>, <<CopyOf(b), PlainOf(b)>>}
       \/ /\ Starved \/ (b.bad /\ b.chunked)
          /\ last.e \in {"Corrupt", "UnexpectedEof"}
          /\ last.args = <<CopyOf(b)>>

\* the last iteration passed the block b through: its payload was written as it is,
\* all of it unless the reader is starved
PassedThrough(b) ==
    /\ last.what = "pass"
    /\ last.args = <<>>
    /\ IsPrefix(PayloadWritten, b.payload)
    /\ ~Starved => last.e = "" /\ PayloadWritten = b.payload

AtRewrite ==
    /\ ValidInput
    /\ last.what = "table"
    /\ AnnouncesZlib(scn.h)

(***************************************************************************)
(* C4: if the rewrite of a block fails (end of input at a chunk size, a    *)
(* short chunk, a decompression error, a failure of the transformer), no   *)
(* byte of the block has been written: downstream holds what it held when  *)
(* the block's tag was read: the prefix and the output of the blocks       *)
(* before it.                                                              *)
(***************************************************************************)
C4_NoPartialRewrite ==
    (AtRewrite /\ last.e # "") =>
        /\ last.w = <<>>
        /\ out = last.outBefore
        /\ Len(out) >= PrefixLen
        /\ SubSeq(out, 1, PrefixLen) = SubSeq(input, 1, PrefixLen)

\* the chunk of the second block is no zlib stream: the block before it is downstream
C4_Witness ==
    /\ AtRewrite
    /\ last.e = "Corrupt"
    /\ ~Starved
    /\ LastBlock = 2
    /\ scn.blocks[2].bad
    /\ BlockComplete(2)
    /\ Len(out) > PrefixLen

\* the last iteration passed through a block that the input holds only a part of, up
\* to the end of the input: it wrote the length, and fewer bytes of payload than that
ShortPassThrough ==
    /\ ValidInput
    /\ last.what = "pass"
    /\ LastBlock > 0
    /\ ~BlockComplete(LastBlock)
    /\ comb.up = Len(input)
    /\ Len(last.w) >= 2 * (scn.h.int_size + 1) + 1
    /\ Len(PayloadWritten) < Len(scn.blocks[LastBlock].payload)

(***************************************************************************)
(* C5: when the input ends inside the payload of a pass-through block,     *)
(* process_stream fails: it does not return normally once it has emitted   *)
(* a pass-through block with less payload than the length it emitted.      *)
(* The copy loop of the code ends silently on an empty read.               *)
(***************************************************************************)
C5_ShortPassThroughFails == [][ShortPassThrough => pc' # "done"]_vars

\* the last iteration read the tag of a DATA block that is to be passed through and
\* that the reader delivered all of
AtPassThroughBlock ==
    /\ AtDataBlock
    /\ ~IsTableBlock(scn.blocks[LastBlock], scn.entries)
    /\ ~Starved

\* the encoding of an int with the sign byte normalised: 1 for a negative value, 0
\* for any other, a negative zero included
Canonical(sign, magnitude) ==
    EncInt(IF sign # 0 /\ magnitude # 0 THEN 1 ELSE 0, magnitude, scn.h.int_size)

(***************************************************************************)
(* C6 as stated: the bytes emitted for a complete pass-through block are   *)
(* the block's input bytes, whatever the encoding of its dump-id and its   *)
(* length, a sign byte other than 0 and 1 and a negative zero included.    *)
(***************************************************************************)
C6_PassThroughIdentical ==
    AtPassThroughBlock => last.w = BlockBytes(LastBlock)

(***************************************************************************)
(* C6 amended: the bytes emitted for a complete pass-through block are its *)
(* tag, its dump-id and its length encoded again by write_int (sign byte 1 *)
(* for a negative value, 0 otherwise), and its payload unchanged; so they  *)
(* are the input bytes iff the sign bytes of the input are the ones        *)
(* write_int produces.                                                     *)
(***************************************************************************)
C6_PassThroughReencoded ==
    AtPassThroughBlock =>
        LET b == scn.blocks[LastBlock]
        IN  /\ last.e = ""
            /\ last.w = <<DATA>> \o Canonical(b.sign, b.id)
                               \o Canonical(b.lsign, Len(b.payload)) \o b.payload
            /\ (last.w = BlockBytes(LastBlock)) <=>
                  (/\ b.sign = (IF b.sign # 0 /\ b.id # 0 THEN 1 ELSE 0)
                   /\ b.lsign = (IF b.lsign # 0 /\ Len(b.payload) # 0 THEN 1 ELSE 0))

\* a block whose dump-id has the sign byte 2 was emitted with the sign byte 1
C6_Witness ==
    /\ AtPassThroughBlock
    /\ scn.blocks[LastBlock].sign = 2
    /\ last.w = <<DATA, 1, 3, 0, 1, 8>>
    /\ BlockBytes(LastBlock) = <<DATA, 2, 3, 0, 1, 8>>

\* the bytes a reader yields when it is read byte by byte to its end
RECURSIVE Drain(_)
Drain(s) ==
    IF Read(s, 1).d = <<>> THEN <<>> ELSE Read(s, 1).d \o Drain(Read(s, 1).s)

\* the bytes of the input from the position p (from 0) onward
InputFrom(p) == SubSeq(input, p + 1, Len(input))

(***************************************************************************)
(* C7: for a valid input, however upstream delivers it, when the header    *)
(* and the TOC are parsed the bytes written downstream are the input's     *)
(* bytes before p, the end of the last TOC entry, and the reader handed to *)
(* the block engine yields the input's bytes from p on, in order, none     *)
(* lost or duplicated; the first byte the engine reads is the tag at p.    *)
(***************************************************************************)
C7_PrefixWrittenReaderAtFirstTag ==
    ValidInput =>
        /\ last.what = "parsed" =>
              /\ out = SubSeq(input, 1, PrefixLen)
              /\ last.w = out
              /\ PrefixLen <= Len(input)
              /\ Drain(comb) = InputFrom(PrefixLen)
              /\ comb.data \o InputFrom(comb.up) = InputFrom(PrefixLen)
        /\ Parsed => SubSeq(out, 1, PrefixLen) = SubSeq(input, 1, PrefixLen)
        /\ tagsAt # <<>> => tagsAt[1] = PrefixLen + 1 /\ input[tagsAt[1]] = scn.blocks[1].tag

\* parsed after several short deliveries, the buffer holding more than the prefix
\* and upstream holding the rest
C7_Witness ==
    /\ ValidInput
    /\ last.what = "parsed"
    /\ upReads > 3
    /\ comb.data # <<>>
    /\ comb.up < Len(input)
    /\ Len(Drain(comb)) > Len(comb.data)

\* the last parse of the buffer failed on what the buffered bytes show, not for lack
\* of bytes: five bytes that are not the magic, a version out of range, a format
\* other than 1, a compression descriptor that is not known
FatalHeaderShown ==
    /\ last.what = "header"
    /\ \/ last.e = "BadMagic" /\ Len(buffer) >= Len(MAGIC_HEADER)
       \/ last.e \in {"UnsupportedVersion", "UnsupportedFormat", "BadCompression"}

(***************************************************************************)
(* C8: another chunk is read from upstream only when the parse failed for  *)
(* lack of bytes; on a bad magic, an unsupported version, a format other   *)
(* than 1 or an unknown compression descriptor process_stream fails at     *)
(* once with that error and reads no further chunk.  The code catches the  *)
(* error and reads on.                                                     *)
(***************************************************************************)
C8_FailFast ==
    [][FatalHeaderShown => (pc = "error" /\ err = last.e /\ upReads' = upReads)]_vars

\* reads of 1 to MaxRead bytes are tried on the combiner
MaxRead == 4

\* the bytes the combiner s has still to deliver: the rest of its buffered prefix,
\* then what the live source has not delivered
Remaining(s) ==
    (IF s.idx = 0 THEN SubSeq(s.data, s.pos + 1, Len(s.data)) ELSE <<>>) \o InputFrom(s.up)

(***************************************************************************)
(* C9: in every state of the combiner handed to the block engine, read(n)  *)
(* for n > 0 returns the next n bytes of the buffered prefix followed by   *)
(* the live source, or all that remain if they are fewer, also when the    *)
(* live source serves a read with fewer bytes than asked.  The code gives  *)
(* a source up on its first short read.                                    *)
(***************************************************************************)
C9_ReadReturnsInFull ==
    Parsed =>
        \A n \in 1..MaxRead :
            Read(comb, n).d = SubSeq(Remaining(comb), 1, Min(n, Len(Remaining(comb))))

\* the last iteration read the byte END at a block-tag position
AtEndTag ==
    /\ last.what \in {"data", "table", "pass", "other"}
    /\ input[last.tagAt] = END

(***************************************************************************)
(* C10: when the byte read at a block-tag position is END, that one byte   *)
(* is written and the loop ends: nothing more is read or written.  When    *)
(* the read at a block-tag position returns nothing, processing ends       *)
(* normally, without an error and without writing.                         *)
(***************************************************************************)
C10_EndAndEofTerminate ==
    /\ AtEndTag =>
          /\ last.what = "other"
          /\ last.w = <<END>>
          /\ out = last.outBefore \o <<END>>
          /\ last.from = last.tagAt
          /\ AbsPos(comb) = last.tagAt
          /\ pc = "done"
          /\ err = ""
    /\ last.what = "eof" =>
          /\ last.w = <<>>
          /\ out = last.outBefore
          /\ pc = "done"
          /\ err = ""
    /\ pc = "done" => ~ENABLED Next

\* END was read and written with two blocks downstream before it and bytes of the
\* input after it, which are left unread
C10_Witness ==
    /\ AtEndTag
    /\ pc = "done"
    /\ Len(tagsAt) = 2
    /\ last.tagAt + 3 <= Len(input)
    /\ Len(out) = last.tagAt
    /\ comb.up - (Len(comb.data) - comb.pos) <= last.tagAt

IsSuffix(a, b) == Len(a) <= Len(b) /\ a = SubSeq(b, Len(b) - Len(a) + 1, Len(b))

\* downstream ends with the block written for the table's block b of a zlib dump,
\* followed by the bytes more
RewrittenThen(b, more) ==
    \E t \in Transformers \ {"fail"} : IsSuffix(RewrittenAs(b, t) \o more, out)

(***************************************************************************)
(* C11: a rewritten block is emitted as the DATA tag, write_int of its     *)
(* dump-id, write_int of L and the L bytes of the one zlib compression of  *)
(* the transformer's output, and nothing of a chunk framing follows it in  *)
(* the output: no chunk-size field, no zero-size chunk.  The code leaves   *)
(* the zero-size chunk of the input unread and the loop over the blocks    *)
(* copies its bytes downstream.                                            *)
(***************************************************************************)
C11_SingleChunkNoTerminator ==
    (ValidInput /\ AnnouncesZlib(scn.h)) =>
        /\ (AtDataBlock /\ last.what = "table" /\ last.e = "") =>
              \E t \in Transformers \ {"fail"} :
                  last.w = RewrittenAs(scn.blocks[LastBlock], t)
        /\ \A i \in 1..Len(scn.blocks) :
              IsTableBlock(scn.blocks[i], scn.entries) =>
                  ~RewrittenThen(scn.blocks[i], EncInt(0, 0, scn.h.int_size))


(***************************************************************************)
(* Reading a byte string as the data section of a dump: the blocks up to   *)
(* and including END, each with its tag, its dump-id and its payload       *)
(* decompressed.  A zlib payload is a run of chunks ended by a zero-size   *)
(* chunk, or by a chunk shorter than ZLIB_CHUNK_SIZE with or without a     *)
(* zero-size chunk after it: the chunk framing does not count.             *)
(***************************************************************************)
ByteAt(b, i) == IF i \in 1..Len(b) THEN b[i] ELSE 0

RECURSIVE MagnitudeAt(_, _, _)
MagnitudeAt(b, i, n) == IF n = 0 THEN 0 ELSE ByteAt(b, i) + 256 * MagnitudeAt(b, i + 1, n - 1)

\* the integer whose sign byte is at index i of b
IntAt(b, i, int_size) ==
    IF ByteAt(b, i) # 0 THEN 0 - MagnitudeAt(b, i + 1, int_size)
    ELSE MagnitudeAt(b, i + 1, int_size)

BytesAt(b, i, n) == SubSeq(b, Min(i, Len(b) + 1), Min(i + n - 1, Len(b)))

\* the chunks from index i of b on: their bytes in data, the index after them in next
RECURSIVE ChunksAt(_, _, _, _)
ChunksAt(b, i, int_size, data) ==
    LET size == IntAt(b, i, int_size)
        after == i + 1 + int_size
    IN  IF size <= 0 \/ i > Len(b) THEN [data |-> data, next |-> Min(after, Len(b) + 1)]
        ELSE IF size >= ZLIB_CHUNK_SIZE
             THEN ChunksAt(b, after + size, int_size, data \o BytesAt(b, after, size))
        ELSE [data |-> data \o BytesAt(b, after, size),
              next |-> IF after + size + int_size <= Len(b)
                          /\ IntAt(b, after + size, int_size) = 0
                          /\ ByteAt(b, after + size) = 0
                       THEN after + size + 1 + int_size
                       ELSE Min(after + size, Len(b) + 1)]

\* the blocks from index i of b on, after the blocks acc
RECURSIVE BlocksAt(_, _, _)
BlocksAt(b, i, acc) ==
    IF i > Len(b) THEN acc
    ELSE IF b[i] = END THEN Append(acc, [tag |-> END, id |-> 0, plain |-> <<>>])
    ELSE IF b[i] \notin {DATA, BLOBS}
         THEN BlocksAt(b, i + 1, Append(acc, [tag |-> b[i], id |-> 0, plain |-> <<>>]))
    ELSE LET n == scn.h.int_size
             id == IntAt(b, i + 1, n)
             at == i + 2 + n
         IN  IF AnnouncesZlib(scn.h) /\ b[i] = DATA
                /\ \E k \in 1..Len(scn.entries) :
                      scn.entries[k].desc = TABLE_DATA /\ scn.entries[k].dump_id = id
             THEN LET c == ChunksAt(b, at, n, <<>>)
                  IN  BlocksAt(b, c.next,
                               Append(acc, [tag |-> b[i], id |-> id,
                                            plain |-> DecompressFrom(Decompressobj,
                                                                     c.data, 1).plain]))
             ELSE LET size == IntAt(b, at, n)
                      len == IF size < 0 THEN 0 ELSE size
                  IN  BlocksAt(b, at + 1 + n + len,
                               Append(acc, [tag |-> b[i], id |-> id,
                                            plain |-> BytesAt(b, at + 1 + n, len)]))

\* a whole dump that pg_dump can have written: its blocks complete, their payloads
\* sound, END last
WholeDump ==
    /\ ValidInput
    /\ input = Encode(scn)
    /\ Len(scn.blocks) > 0
    /\ \A i \in 1..Len(scn.blocks) :
          LET b == scn.blocks[i]
          IN  /\ (b.tag = END) = (i = Len(scn.blocks))
              /\ b.tag \in {DATA, BLOBS, END}
              /\ ~b.bad
              /\ b.chunked => b.zero
              /\ b.chunked = (IsTableBlock(b, scn.entries) /\ AnnouncesZlib(scn.h))

(***************************************************************************)
(* C12: with a transformer that returns its input unchanged, the output    *)
(* of a whole run over a valid dump reads as the same dump: the bytes of   *)
(* header and TOC are those of the input, and the blocks up to END have    *)
(* the input's tags and dump-ids in the input's order, each with the       *)
(* decompressed payload of the input's block.                              *)
(***************************************************************************)
C12_IdentityRoundTrip ==
    (WholeDump /\ pc \in {"done", "error"}) =>
        /\ pc = "done"
        /\ IsPrefix(SubSeq(input, 1, PrefixLen), out)
        /\ BlocksAt(SubSeq(out, PrefixLen + 1, Len(out)), 1, <<>>)
              = BlocksAt(InputFrom(PrefixLen), 1, <<>>)

\* the same, for the runs this engine serves in full: no BLOBS block, no uncompressed
\* table block of length 0, and an upstream whose reads return the whole rest of the
\* stream
C12_IdentityRoundTripServed ==
    (WholeDump /\ pc \in {"done", "error"} /\ packet = DEFAULT_BUFFER_SIZE
     /\ \A i \in 1..Len(scn.blocks) :
           /\ scn.blocks[i].tag # BLOBS
           /\ (IsTableBlock(scn.blocks[i], scn.entries) /\ ~scn.blocks[i].chunked)
                 => scn.blocks[i].payload # <<>>) =>
        /\ pc = "done"
        /\ IsPrefix(SubSeq(input, 1, PrefixLen), out)
        /\ BlocksAt(SubSeq(out, PrefixLen + 1, Len(out)), 1, <<>>)
              = BlocksAt(InputFrom(PrefixLen), 1, <<>>)


(***************************************************************************)
(* C13: in a dump whose compression is None, whenever an iteration has     *)
(* rewritten a complete TABLE DATA block, the transformer was called with  *)
(* the block's payload and the block written downstream is the tag, the    *)
(* dump-id, the length of what the transformer returned and what it        *)
(* returned; header and TOC are downstream as upstream sent them.          *)
(***************************************************************************)
UncompressedRewrite ==
    /\ AtDataBlock
    /\ dump.header.compression_method = "none"
    /\ last.what = "table"
    /\ last.e = ""

C13_UncompressedCarriesOutput ==
    UncompressedRewrite =>
        LET b == scn.blocks[LastBlock]
            returned == Transform(last.t, b.payload)
        IN  /\ last.args = <<CopyOf(b), b.payload>>
            /\ last.t \in Transformers \ {"fail"}
            /\ last.w = <<DATA>> \o EncInt(0, b.id, scn.h.int_size)
                           \o EncInt(0, Len(returned), scn.h.int_size) \o returned
            /\ out = SubSeq(input, 1, PrefixLen) \o SubSeq(out, PrefixLen + 1, Len(out))
            /\ IsSuffix(last.w, out)

\* a payload in lower case was rewritten in upper case, and one was rewritten longer
C13_Witness ==
    /\ UncompressedRewrite
    /\ \/ /\ last.t = "upper"
          /\ scn.blocks[LastBlock].payload = <<97, 108>>
          /\ IsSuffix(<<0, 2, 65, 76>>, out)
       \/ /\ last.t = "grow"
          /\ IsSuffix(<<0, 3, 97, 108, 33>>, out)


(***************************************************************************)
(* C14: for every int_size and every integer v with |v| < 256^int_size,    *)
(* write_int(v) is 1 + int_size bytes long, and read_int of those bytes    *)
(* returns v, having read them all.                                        *)
(***************************************************************************)
\* |v| < 256^int_size, which every integer tried satisfies for an int_size of 4 or more
Representable == arg.int_size >= 4 \/ Abs(arg.value) < Pow256(arg.int_size)

C14_WriteReadRoundTrip ==
    (unit = "ints" /\ Representable) =>
        /\ res.step \in {"written", "read"} => Len(res.bytes) = 1 + arg.int_size
        /\ res.step = "read" => (res.e = "" /\ res.v = arg.value /\ res.left = 0)

\* a negative integer that needs every byte of the int_size was written and read back
C14_Witness ==
    /\ unit = "ints"
    /\ res.step = "read"
    /\ arg.int_size > 1
    /\ arg.value = 1 - Pow256(arg.int_size)
    /\ res.v = arg.value


(***************************************************************************)
(* C15: _parse_entry reads a tableam string exactly when the version of    *)
(* the dump is at least 1.14.0.  For a dump of a lower version the entry's *)
(* tableam is absent and owner is the string after tablespace; for every   *)
(* version each field of each entry is the field pg_dump wrote there, and  *)
(* the TOC ends where the first block begins.                              *)
(***************************************************************************)
EntryAsWritten(e, g) ==
    /\ e.dump_id = g.dump_id
    /\ e.had_dumper
    /\ e.tag = <<116>>
    /\ e.desc = g.desc
    /\ e.section = ParseSection(2)
    /\ e.defn = OrNone(g.defn)
    /\ e.copy_stmt = OrNone(g.copy_stmt)
    /\ e.tablespace = None
    /\ e.owner = <<111>>
    /\ e.with_oids = None
    /\ e.dependencies = (IF IsInt(g.dep) THEN <<DigitsValue(g.dep, 1, 0)>> ELSE <<>>)
    /\ e.data_state = 1
    /\ e.offset = 0

C15_TableamFromVersion14 ==
    (ValidInput /\ Parsed) =>
        /\ Len(dump.toc_entries) = Len(scn.entries)
        /\ \A k \in 1..Len(scn.entries) :
              /\ dump.toc_entries[k].tableam
                    = (IF VersionLess(scn.h.version, V1_14) THEN None ELSE <<104>>)
              /\ EntryAsWritten(dump.toc_entries[k], scn.entries[k])
        /\ last.what = "parsed" => out = SubSeq(input, 1, PrefixLen)

\* the three entries of a dump of version 1.13 were parsed without a tableam
C15_Witness ==
    /\ ValidInput
    /\ last.what = "parsed"
    /\ scn.h.version = <<1, 13, 0>>
    /\ Len(dump.toc_entries) = 3
    /\ dump.toc_entries[3].tableam = None
    /\ dump.toc_entries[3].owner = <<111>>

\* the same for a dump of version 1.14, its entries parsed with their tableam
C15_WitnessFrom14 ==
    /\ ValidInput
    /\ last.what = "parsed"
    /\ scn.h.version = <<1, 14, 0>>
    /\ Len(dump.toc_entries) = 3
    /\ dump.toc_entries[3].tableam = <<104>>


(***************************************************************************)
(* C16: _parse_compression decodes the method by version.  From 1.15.0 on  *)
(* it reads one byte: 0 is None, 1 Gzip, 2 Lz4, 3 Zlib, any other byte an  *)
(* error.  Below 1.15.0 it reads one signed int: -1 is Zlib, 0 None, 1..9  *)
(* Gzip, any other value an error.  It consumes 1 byte in the first case   *)
(* and 1 + int_size bytes in the second.                                   *)
(***************************************************************************)
MethodOrError(method) ==
    IF method = "error" THEN res.e = "BadCompression" ELSE res.e = "" /\ res.v = method

C16_CompressionByVersion ==
    (unit = "compression" /\ res.step = "returned") =>
        IF ~VersionLess(arg.version, V1_15)
        THEN /\ res.consumed = 1
             /\ MethodOrError(CASE arg.bytes[1] = 0 -> "none"
                                [] arg.bytes[1] = 1 -> "gzip"
                                [] arg.bytes[1] = 2 -> "lz4"
                                [] arg.bytes[1] = 3 -> "zlib"
                                [] OTHER -> "error")
        ELSE LET level == IntAt(arg.bytes, 1, arg.int_size)
             IN  /\ res.consumed = 1 + arg.int_size
                 /\ MethodOrError(CASE level = -1 -> "zlib"
                                    [] level = 0 -> "none"
                                    [] level \in 1..9 -> "gzip"
                                    [] OTHER -> "error")

\* a level of -1 in two bytes was read as Zlib under 1.14.9
C16_Witness ==
    /\ unit = "compression"
    /\ res.step = "returned"
    /\ res.v = "zlib"
    /\ arg.version = <<1, 14, 9>>
    /\ arg.int_size = 2
    /\ res.consumed = 3

\* the byte 3 was read as Zlib under 1.15.0
C16_WitnessByte ==
    /\ unit = "compression"
    /\ res.step = "returned"
    /\ res.v = "zlib"
    /\ arg.version = <<1, 15, 0>>
    /\ arg.bytes[1] = 3
    /\ res.consumed = 1


(***************************************************************************)
(* C17: the chunk loop of the rewrite path stops at the first chunk whose  *)
(* declared size is 0 or less than ZLIB_CHUNK_SIZE and never after a chunk *)
(* of ZLIB_CHUNK_SIZE bytes or more: the stream then stands right after    *)
(* that chunk, or has run out if there is no such chunk.  The transformer  *)
(* is handed the decompression of the bytes of all the chunks read, that   *)
(* chunk included, in their order.                                         *)
(***************************************************************************)
\* the index of the first chunk shorter than ZLIB_CHUNK_SIZE, 0 if there is none
FirstShort(sizes) ==
    IF \E k \in 1..Len(sizes) : sizes[k] < ZLIB_CHUNK_SIZE
    THEN CHOOSE k \in 1..Len(sizes) :
            /\ sizes[k] < ZLIB_CHUNK_SIZE
            /\ \A j \in 1..(k - 1) : sizes[j] >= ZLIB_CHUNK_SIZE
    ELSE 0

\* the number of chunks with data that the loop is to read
ChunksToRead == IF FirstShort(arg.sizes) > 0 THEN FirstShort(arg.sizes) ELSE Len(arg.sizes)

\* whether the loop meets a chunk to stop at
TerminalChunk == FirstShort(arg.sizes) > 0 \/ arg.zero

C17_ChunkLoopStops ==
    (unit = "chunks" /\ res.step = "returned") =>
        IF TerminalChunk
        THEN /\ res.e \in {"", "TransformerFailure"}
             /\ res.consumed = SumTo(arg.sizes, ChunksToRead)
                                  + (1 + arg.int_size) * ChunksToRead
                                  + (IF FirstShort(arg.sizes) = 0 THEN 1 + arg.int_size ELSE 0)
             /\ res.args = <<DecompressFrom(
                                Decompressobj,
                                SubSeq(ZStream(SumTo(arg.sizes, Len(arg.sizes))), 1,
                                       SumTo(arg.sizes, ChunksToRead)),
                                1).plain>>
        ELSE /\ res.e = "UnexpectedEof"
             /\ res.args = <<>>
             /\ res.w = <<>>

\* the loop went on after a chunk of ZLIB_CHUNK_SIZE bytes and stopped at one of
\* ZLIB_CHUNK_SIZE - 1 bytes, and the transformer was handed the plaintext of the two
C17_Witness ==
    /\ unit = "chunks"
    /\ res.step = "returned"
    /\ res.e = ""
    /\ arg.sizes = <<ZLIB_CHUNK_SIZE, ZLIB_CHUNK_SIZE - 1>>
    /\ Len(res.args[1]) = ZLIB_CHUNK_SIZE - 1
    /\ res.consumed = 2 * ZLIB_CHUNK_SIZE - 1 + 2 * (1 + arg.int_size)


(***************************************************************************)
(* C18: for a whole zlib dump in which the payload of every TABLE DATA     *)
(* block is a run of chunks followed by the zero-size chunk, every byte    *)
(* that _process_data_blocks has read as a block-type tag is the tag of a  *)
(* block of the input, and so is every byte it has copied downstream as a  *)
(* tag.                                                                    *)
(***************************************************************************)
TerminatedZlibInput ==
    /\ ValidInput
    /\ AnnouncesZlib(scn.h)
    /\ input = Encode(scn)
    /\ \A i \in 1..Len(scn.blocks) :
          IsTableBlock(scn.blocks[i], scn.entries) =>
              (scn.blocks[i].chunked /\ scn.blocks[i].zero /\ ~scn.blocks[i].bad)

IsBlockStart(pos) == \E k \in 1..Len(scn.blocks) : pos = BlockStart(k)

C18_TagsAreBlockTags ==
    TerminatedZlibInput =>
        /\ \A i \in 1..Len(tagsAt) : IsBlockStart(tagsAt[i])
        /\ (last.what = "other" /\ last.w # <<>>) => IsBlockStart(last.tagAt)


(***************************************************************************)
(* C19: in every state of the combiner handed to the block engine,         *)
(* read(0) returns the empty byte string and the reads after it return     *)
(* what they would have returned without it.  In a dump whose compression  *)
(* is not zlib, after a TABLE DATA block of length 0 was rewritten the     *)
(* reader still yields the blocks that follow it.                          *)
(***************************************************************************)
C19_ZeroReadConsumesNothing ==
    /\ Parsed =>
          /\ Read(comb, 0).d = <<>>
          /\ Drain(Read(comb, 0).s) = Drain(comb)
    /\ (AtDataBlock /\ ~AnnouncesZlib(scn.h) /\ last.what = "table" /\ last.e = ""
        /\ scn.blocks[LastBlock].payload = <<>>
        /\ packet = DEFAULT_BUFFER_SIZE) =>
          Drain(comb) = InputFrom(BlockStart(LastBlock + 1) - 1)


(***************************************************************************)
(* C20: TocParser.parse rejects a negative entry count with an error, so   *)
(* that no Dump results; for a count c >= 0 the Dump that results has      *)
(* exactly c entries.                                                      *)
(***************************************************************************)
DeclaredCount == IntAt(scn.count, 1, scn.h.int_size)

C20_EntryCount ==
    (scn.h \in ValidHeaders /\ input = Encode(scn)) =>
        IF DeclaredCount < 0
        THEN ~Parsed /\ pc \in {"header", "error"}
        ELSE Parsed => Len(dump.toc_entries) = DeclaredCount

\* the same for the counts that are not negative
C20_EntryCountNonNegative ==
    (scn.h \in ValidHeaders /\ input = Encode(scn) /\ DeclaredCount >= 0 /\ Parsed) =>
        Len(dump.toc_entries) = DeclaredCount


(***************************************************************************)
(* C21: what _parse_header_and_toc returns depends on the bytes of the     *)
(* input alone.  However upstream has split the input, the Dump, the       *)
(* prefix written downstream and the position block processing starts at   *)
(* are those of the parse of the whole input in one piece, and there is no *)
(* Dump if that parse fails.  No beginning of the input parses to anything *)
(* else: whatever buffer a split makes the loop try, the attempt fails or  *)
(* gives that same Dump, ending at that same position.                     *)
(***************************************************************************)
NewDio == [int_size |-> DEFAULT_INT_SIZE, offset_size |-> DEFAULT_OFFSET_SIZE]

\* the parse of the first k bytes of the input by a parser not used before
ParseOfFirst(k) == ParseDump(SubSeq(input, 1, k), NewDio)

SameParse(a, b) == a.e = "" /\ b.e = "" /\ a.v = b.v /\ a.s.pos = b.s.pos

C21_ParseIndependentOfSplit ==
    /\ Parsed =>
          /\ ParseOfFirst(Len(input)).e = ""
          /\ dump = ParseOfFirst(Len(input)).v
          /\ IsPrefix(SubSeq(input, 1, ParseOfFirst(Len(input)).s.pos), out)
    /\ last.what = "parsed" =>
          /\ out = SubSeq(input, 1, ParseOfFirst(Len(input)).s.pos)
          /\ AbsPos(comb) = ParseOfFirst(Len(input)).s.pos
          /\ Drain(comb) = InputFrom(ParseOfFirst(Len(input)).s.pos)
    /\ (pc = "header" /\ up = 0 /\ input = Encode(scn)) =>
          \A k \in 0..Len(input) :
              ParseOfFirst(k).e = "" => SameParse(ParseOfFirst(k), ParseOfFirst(Len(input)))

\* a dump of three entries was parsed in the sixth read or later of an upstream that
\* delivers it in small pieces
C21_Witness ==
    /\ last.what = "parsed"
    /\ packet = PacketSize
    /\ upReads >= 6
    /\ Len(dump.toc_entries) = 3
    /\ out = SubSeq(input, 1, PrefixLen)


(***************************************************************************)
(* C22: as long as the parse of header and TOC has not succeeded nothing   *)
(* is written downstream; so when process_stream fails before it has, on  *)
(* a bad magic, version, format, compression or date, on an invalid string *)
(* or on an input that ends inside the header or the TOC, downstream has   *)
(* received zero bytes and was never flushed.                              *)
(***************************************************************************)
C22_NothingWrittenBeforeParse ==
    ~Parsed => (out = <<>> /\ flushedAt = 0 /\ calls = <<>>)

\* process_stream has failed on a dump whose header the parser rejects, after it read
\* all of it
C22_Witness ==
    /\ pc = "error"
    /\ ~Parsed
    /\ scn.h \in InvalidHeaders
    /\ up = Len(input)
    /\ Len(input) > Len(MAGIC_HEADER)
    /\ out = <<>>

\* the same on a dump that ends inside its TOC, and on one with an invalid string
C22_WitnessCut ==
    /\ pc = "error"
    /\ ~Parsed
    /\ scn.h \in ValidHeaders
    /\ \/ Len(input) < PrefixLen
       \/ \E i \in 1..Len(scn.entries) : ~Utf8Valid(scn.entries[i].defn)
    /\ out = <<>>

\* what is left to do: the iterations the loop process_stream is in may still make, a
\* read of upstream in the header loop taking at least one byte, an iteration of the
\* loop over comments one comment and an iteration of the block loop at least the tag
Variant ==
    CASE pc = "header" -> 3 * Len(input) + 3 - up
      [] pc \in {"comments", "blocks"} ->
             2 + Cardinality(pending) + Len(input) - AbsPos(comb)
      [] OTHER -> 0

(***************************************************************************)
(* C23: whatever bytes upstream holds, process_stream returns or raises    *)
(* after finitely many iterations: every iteration of the loop over        *)
(* upstream reads that parses header and TOC, of the loop over comments    *)
(* and of the loop over blocks, with the loops over chunks and copies and  *)
(* the recursion of the combined stream's read inside it, ends and leaves  *)
(* strictly less to do, what is left being a natural number; and while     *)
(* process_stream has not returned or raised no loop is left without a     *)
(* next iteration.                                                         *)
(***************************************************************************)
C23_Terminates ==
    /\ [](pc = "comments" => pending # {})
    /\ [](Variant >= 0 /\ (Variant = 0 <=> pc \in {"done", "error"}))
    /\ [][Variant' < Variant]_vars

\* process_stream returned because upstream ended, after header and TOC took several
\* reads and the block loop several iterations
C23_Witness ==
    /\ pc = "done"
    /\ last.what = "eof"
    /\ upReads >= 3
    /\ Len(tagsAt) >= 2

\* process_stream raised in the block loop after it rewrote a block
C23_WitnessRaised ==
    /\ pc = "error"
    /\ Parsed
    /\ Len(tagsAt) >= 2
    /\ last.e # ""

(***************************************************************************)
(* C24: in every block _write_data_block writes, the length field read     *)
(* with read_int and the header's int_size is the number of payload bytes  *)
(* that follow it, and these are the transformer's output or its           *)
(* compression, for every int_size and every length of the output.         *)
(***************************************************************************)
C24_LengthFieldIsPayloadLength ==
    (unit = "block" /\ res.step = "read") =>
        /\ res.tag = <<DATA>>
        /\ res.length = res.follow
        /\ res.follow = Len(res.payload)

\* the same for the payloads whose length an int of int_size bytes holds
C24_LengthFieldWhenItFits ==
    (unit = "block" /\ res.step = "read"
        /\ (arg.int_size >= 4 \/ Len(res.payload) < Pow256(arg.int_size))) =>
        /\ res.tag = <<DATA>>
        /\ res.length = res.follow
        /\ res.follow = Len(res.payload)

\* a block of a payload of more than MaxPayload bytes was written with an int_size of
\* two and read back
C24_WitnessFits ==
    /\ unit = "block"
    /\ res.step = "read"
    /\ arg.int_size = 2
    /\ Len(res.payload) > MaxPayload
    /\ res.length = Len(res.payload)

(***************************************************************************)
(* C25: downstream is flushed after the prefix of header and TOC is        *)
(* written and before the first block tag is read, and after each          *)
(* rewritten block is written and before the next block tag is read: in    *)
(* the state the parse leaves, and in every state before the first tag is  *)
(* read, all that was written is the prefix and it is flushed; in the      *)
(* state an iteration that rewrote a block leaves, the block is the last   *)
(* thing written and all that was written is flushed.                      *)
(***************************************************************************)
C25_FlushedBeforeNextTag ==
    /\ last.what = "parsed" =>
          /\ last.w # <<>>
          /\ out = last.w
          /\ flushedAt = Len(out)
          /\ tagsAt = <<>>
    /\ (pc \in {"comments", "blocks"} /\ tagsAt = <<>>) =>
          /\ out # <<>>
          /\ flushedAt = Len(out)
    /\ (last.what = "table" /\ last.e = "") =>
          /\ last.w # <<>>
          /\ out = last.outBefore \o last.w
          /\ last.flushed
          /\ flushedAt = Len(out)

\* a block was rewritten in the second iteration or later and the loop goes on to read
\* the next tag, an earlier iteration having written a tag without a flush
C25_Witness ==
    /\ pc = "blocks"
    /\ last.what = "table"
    /\ last.e = ""
    /\ Len(tagsAt) >= 2
    /\ Len(last.outBefore) > PrefixLen
    /\ flushedAt = Len(out)

\* the parse has just succeeded and the first tag is still to be read
C25_WitnessPrefix ==
    /\ pc = "blocks"
    /\ last.what = "parsed"
    /\ flushedAt = Len(out)
    /\ AbsPos(comb) < Len(input)

====
